---- MODULE Spec2Model ----
(***************************************************************************)
(* Model of the ASM -> PIL lowering pass of powdr                          *)
(* (src/src/asm_compiler/mod.rs).  The converter ingests the statements of *)
(* an ASM file one at a time and then runs a fixup phase that emits the    *)
(* assignment-bus identity, the register-next identities, the program ROM  *)
(* and the plookup that connects the trace to the ROM.                     *)
(***************************************************************************)
EXTENDS Integers, Sequences, FiniteSets, TLC

VARIABLES
    asm_input, \* the statements of the ASMFile that convert has taken so far
    random_state, \* the keys of this run's HashMap hasher (RandomState)
    self,     \* the ASMPILConverter: a record of its fields
    status,   \* where convert is: "ingest", "done", "panic_ingest", "panic_fixup"
    traversal \* the last call of the expression visitor and what it did

vars == <<asm_input, random_state, self, status, traversal>>

(***************************************************************************)
(* Bounds of the model.                                                    *)
(***************************************************************************)
\* number of input statements of one ASM file
MaxStmts == 6

(***************************************************************************)
(* Option<T>: None is the empty sequence, Some(v) the one-element one.     *)
(***************************************************************************)
None == <<>>
Some(v) == <<v>>
IsSome(o) == o /= <<>>
Unwrap(o) == o[1]

(***************************************************************************)
(* Strings.  Names are Rust Strings; format! is concatenation.  BTreeMap   *)
(* orders its String keys by bytes: Alphabet lists the characters that     *)
(* occur in names in ascending byte order.                                 *)
(***************************************************************************)
Alphabet == "0123456789ABCDEFGHIJKLMNOPQRSTUVWXYZ_abcdefghijklmnopqrstuvwxyz"

\* the rank of every character in byte order
AlphabetRanks ==
    [c \in { SubSeq(Alphabet, i, i) : i \in 1..Len(Alphabet) } |->
        CHOOSE i \in 1..Len(Alphabet) : SubSeq(Alphabet, i, i) = c]

CharRank(c) == AlphabetRanks[c]

RECURSIVE StrLess(_, _)
\* <String as Ord>::lt : lexicographic by bytes, a proper prefix is smaller
StrLess(a, b) ==
    IF Len(b) = 0 THEN FALSE
    ELSE IF Len(a) = 0 THEN TRUE
    ELSE IF Head(a) = Head(b) THEN StrLess(Tail(a), Tail(b))
    ELSE CharRank(Head(a)) < CharRank(Head(b))

RECURSIVE SortedKeys(_)
\* the keys of a BTreeMap in iteration order
SortedKeys(S) ==
    IF S = {} THEN <<>>
    ELSE LET m == CHOOSE x \in S : \A y \in S \ {x} : StrLess(x, y)
         IN  <<m>> \o SortedKeys(S \ {m})

\* BTreeMap::insert : the new value replaces an old one under the same key
MapInsert(m, k, v) == (k :> v) @@ m

EmptyMap == <<>>

(***************************************************************************)
(* std::collections::HashMap: the entries <<key, value>> in the map's      *)
(* iteration order, which depends on the keys of the run's hasher and not  *)
(* on the order of insertion.  Two hashers stand for all: one that iterates *)
(* in ascending and one that iterates in descending key order.             *)
(***************************************************************************)
HasherKeys == {"ascending", "descending"}

HashBefore(hasher, a, b) ==
    IF hasher = "ascending" THEN StrLess(a, b) ELSE StrLess(b, a)

HashMap_new == <<>>

HashMap_contains_key(m, key) == \E i \in 1..Len(m) : m[i][1] = key

\* HashMap::get / Index : the value under a key that is present
HashMap_get(m, key) == m[CHOOSE i \in 1..Len(m) : m[i][1] = key][2]

\* HashMap::insert : a present key keeps its slot and takes the new value
HashMap_insert(m, hasher, key, value) ==
    IF HashMap_contains_key(m, key)
      THEN [i \in 1..Len(m) |-> IF m[i][1] = key THEN <<key, value>> ELSE m[i]]
      ELSE LET before == SelectSeq(m, LAMBDA e : HashBefore(hasher, e[1], key))
               after == SelectSeq(m, LAMBDA e : ~HashBefore(hasher, e[1], key))
           IN  before \o << <<key, value>> >> \o after

(***************************************************************************)
(* Expressions (parser::ast::Expression).                                  *)
(***************************************************************************)
Number(v) == [kind |-> "Number", value |-> v]

PolynomialReference(namespace, name, index, next) ==
    [kind |-> "PolynomialReference", namespace |-> namespace, name |-> name,
     index |-> index, next |-> next]

BinaryOperation(left, op, right) ==
    [kind |-> "BinaryOperation", left |-> left, op |-> op, right |-> right]

UnaryOperation(op, exp) == [kind |-> "UnaryOperation", op |-> op, exp |-> exp]

FreeInput(exp) == [kind |-> "FreeInput", exp |-> exp]

Constant(name) == [kind |-> "Constant", name |-> name]

PublicReference(name) == [kind |-> "PublicReference", name |-> name]

String(s) == [kind |-> "String", string |-> s]

Tuple(items) == [kind |-> "Tuple", items |-> items]

FunctionCall(name, args) == [kind |-> "FunctionCall", name |-> name, args |-> args]

direct_reference(name) == PolynomialReference(None, name, None, FALSE)

next_reference(name) == PolynomialReference(None, name, None, TRUE)

build_binary_expr(left, op, right) == BinaryOperation(left, op, right)

build_mul(left, right) == build_binary_expr(left, "Mul", right)

build_sub(left, right) == build_binary_expr(left, "Sub", right)

build_add(left, right) == build_binary_expr(left, "Add", right)

build_unary_expr(op, exp) == UnaryOperation(op, exp)

build_number(value) == Number(value)

RECURSIVE reduce_build_add(_)
\* Iterator::reduce(build_add) on a non-empty sequence: the sum that is
\* associated to the left
reduce_build_add(terms) ==
    IF Len(terms) = 1 THEN terms[1]
    ELSE build_add(reduce_build_add(SubSeq(terms, 1, Len(terms) - 1)),
                   terms[Len(terms)])

(***************************************************************************)
(* PIL statements (parser::ast::Statement).                                *)
(***************************************************************************)
PolynomialCommitDeclaration(start, names, value) ==
    [kind |-> "PolynomialCommitDeclaration", start |-> start, names |-> names,
     value |-> value]

PolynomialIdentity(start, expr) ==
    [kind |-> "PolynomialIdentity", start |-> start, expr |-> expr]

PlookupIdentity(start, left, right) ==
    [kind |-> "PlookupIdentity", start |-> start, left |-> left, right |-> right]

PolynomialConstantDefinition(start, name, definition) ==
    [kind |-> "PolynomialConstantDefinition", start |-> start, name |-> name,
     definition |-> definition]

SelectedExpressions(selector, expressions) ==
    [selector |-> selector, expressions |-> expressions]

Mapping(params, expr) == [kind |-> "Mapping", params |-> params, expr |-> expr]

Array(values) == [kind |-> "Array", values |-> values]

witness_column(start, name) ==
    PolynomialCommitDeclaration(
        start, <<[name |-> name, array_size |-> None]>>, None)

(***************************************************************************)
(* The converter's tables.                                                 *)
(***************************************************************************)
Register(conditioned_updates, default_update) ==
    [conditioned_updates |-> conditioned_updates, default_update |-> default_update]

ASMPILConverter_new ==
    [pil |-> <<>>,
     pc_name |-> None,
     default_assignment |-> None,
     registers |-> EmptyMap,
     instructions |-> EmptyMap,
     code_lines |-> <<>>,
     line_lookup |-> <<>>,
     program_constant_names |-> <<>>]

default_assignment_reg(c) == Unwrap(c.default_assignment)

\* the mutant of create_witness_fixed_pair that forgets the program constant
create_witness_fixed_pair_without_constant(c, start, name) ==
    LET fixed_name == "p_" \o name
    IN  [c EXCEPT !.pil = Append(@, witness_column(start, name)),
                  !.line_lookup = Append(@, <<name, fixed_name>>)]

create_witness_fixed_pair(c, start, name) ==
    LET fixed_name == "p_" \o name
    IN  [c EXCEPT !.pil = Append(@, witness_column(start, name)),
                  !.line_lookup = Append(@, <<name, fixed_name>>),
                  !.program_constant_names = Append(@, fixed_name)]

(***************************************************************************)
(* Register declarations.                                                  *)
(***************************************************************************)
\* the mutant of handle_register_declaration_panics without the assert_eq!
\* on pc_name
handle_register_declaration_panics_without_pc(c, flags, name) ==
    \/ flags = Some("IsDefaultAssignment") /\ c.default_assignment /= None
    \/ flags = None /\ c.default_assignment = None

\* the mutant of handle_register_declaration_panics that wants the
\* default-assignment register before the pc too
handle_register_declaration_panics_pc_before_bus(c, flags, name) ==
    \/ flags = Some("IsPC") /\ (c.pc_name /= None \/ c.default_assignment = None)
    \/ flags = Some("IsDefaultAssignment") /\ c.default_assignment /= None
    \/ flags = None /\ c.default_assignment = None

handle_register_declaration_panics(c, flags, name) ==
    \/ flags = Some("IsPC") /\ c.pc_name /= None
    \/ flags = Some("IsDefaultAssignment") /\ c.default_assignment /= None
    \/ flags = None /\ c.default_assignment = None

handle_register_declaration(c, flags, name, start) ==
    LET write_flag == "reg_write_" \o name
        c1 == IF flags = Some("IsPC")
                THEN [c EXCEPT !.pc_name = Some(name),
                               !.line_lookup = Append(@, <<name, "line">>)]
              ELSE IF flags = Some("IsDefaultAssignment")
                THEN [c EXCEPT !.default_assignment = Some(name)]
              ELSE create_witness_fixed_pair(c, start, write_flag)
        conditioned_updates ==
            IF flags = None
              THEN << <<direct_reference(write_flag),
                        direct_reference(default_assignment_reg(c1))>> >>
              ELSE <<>>
        default_update ==
            IF flags = Some("IsPC")
              THEN Some(build_add(direct_reference(name), build_number(1)))
            ELSE IF flags = Some("IsDefaultAssignment") THEN None
            ELSE Some(direct_reference(name))
    IN  [c1 EXCEPT !.registers =
                       MapInsert(@, name, Register(conditioned_updates, default_update)),
                   !.pil = Append(@, witness_column(start, name))]

(***************************************************************************)
(* Instruction declarations.                                               *)
(***************************************************************************)
Instruction(params) == [params |-> params]

InstructionParam(name, param_type, assignment_reg) ==
    [name |-> name, param_type |-> param_type, assignment_reg |-> assignment_reg]

\* HashMap::get(..).unwrap_or(input)
substitute_string(input, substitution) ==
    IF HashMap_contains_key(substitution, input)
      THEN HashMap_get(substitution, input)
      ELSE input

RECURSIVE substitute(_, _)
RECURSIVE substitute_all(_, _)
\* the mutant of substitute that rebuilds a renamed reference with
\* direct_reference
substitute_resetting_reference(input, substitution) ==
    CASE input.kind = "PolynomialReference" ->
           direct_reference(substitute_string(input.name, substitution))
      [] input.kind = "BinaryOperation" ->
           build_binary_expr(substitute(input.left, substitution), input.op,
                             substitute(input.right, substitution))
      [] input.kind = "UnaryOperation" ->
           build_unary_expr(input.op, substitute(input.exp, substitution))
      [] input.kind = "FunctionCall" ->
           FunctionCall(input.name, substitute_all(input.args, substitution))
      [] input.kind = "Tuple" ->
           Tuple(substitute_all(input.items, substitution))
      [] OTHER -> input

substitute(input, substitution) ==
    CASE input.kind = "PolynomialReference" ->
           [input EXCEPT !.name = substitute_string(@, substitution)]
      [] input.kind = "BinaryOperation" ->
           build_binary_expr(substitute(input.left, substitution), input.op,
                             substitute(input.right, substitution))
      [] input.kind = "UnaryOperation" ->
           build_unary_expr(input.op, substitute(input.exp, substitution))
      [] input.kind = "FunctionCall" ->
           FunctionCall(input.name, substitute_all(input.args, substitution))
      [] input.kind = "Tuple" ->
           Tuple(substitute_all(input.items, substitution))
      [] OTHER -> input

\* items.iter().map(|e| substitute(e, substitution)).collect()
substitute_all(items, substitution) ==
    IF items = <<>> THEN <<>>
    ELSE <<substitute(Head(items), substitution)>>
             \o substitute_all(Tail(items), substitution)

\* the two assert_eq! of extract_update
extract_update_panics(expr) ==
    /\ expr.kind = "BinaryOperation"
    /\ expr.op = "Sub"
    /\ expr.left.kind = "PolynomialReference"
    /\ expr.left.next
    /\ (expr.left.namespace /= None \/ expr.left.index /= None)

\* the mutant of extract_update that does not look at the next flag
extract_update_ignoring_next(expr) ==
    IF expr.kind = "BinaryOperation" /\ expr.op = "Sub"
      THEN IF expr.left.kind = "PolynomialReference"
             THEN <<Some(expr.left.name), expr.right>>
             ELSE <<None, build_binary_expr(expr.left, "Sub", expr.right)>>
      ELSE <<None, expr>>

\* the pair (Option<String>, Expression)
extract_update(expr) ==
    IF expr.kind = "BinaryOperation" /\ expr.op = "Sub"
      THEN IF expr.left.kind = "PolynomialReference" /\ expr.left.next
             THEN <<Some(expr.left.name), expr.right>>
             ELSE <<None, build_binary_expr(expr.left, "Sub", expr.right)>>
      ELSE <<None, expr>>

RECURSIVE instruction_def_params(_, _, _, _, _)
\* the loop over params: the converter and the substitutions after it
instruction_def_params(c, hasher, start, name, params) ==
    IF params = <<>> THEN [c |-> c, substitutions |-> HashMap_new]
    ELSE LET n == Len(params)
             p == params[n]
             before == instruction_def_params(c, hasher, start, name,
                                              SubSeq(params, 1, n - 1))
         IN  IF p.assignment_reg[1] = None /\ p.assignment_reg[2] = None
               THEN LET param_col_name == "instr_" \o name \o "_param_" \o p.name
                    IN  [c |-> create_witness_fixed_pair(before.c, start, param_col_name),
                         substitutions |->
                             HashMap_insert(before.substitutions, hasher, p.name,
                                            param_col_name)]
               ELSE before

RECURSIVE instruction_def_body(_, _, _, _)
\* the loop over body
instruction_def_body(c, col_name, body, substitutions) ==
    IF body = <<>> THEN c
    ELSE LET n == Len(body)
             before == instruction_def_body(c, col_name, SubSeq(body, 1, n - 1),
                                            substitutions)
             update == extract_update(substitute(body[n], substitutions))
         IN  IF update[1] /= None
               THEN [before EXCEPT
                       !.registers[Unwrap(update[1])].conditioned_updates =
                           Append(@, <<direct_reference(col_name), update[2]>>)]
               ELSE [before EXCEPT
                       !.pil = Append(@, PolynomialIdentity(
                                   0, build_mul(direct_reference(col_name), update[2])))]

handle_instruction_def_panics(c, hasher, body, name, params) ==
    LET substitutions == instruction_def_params(c, hasher, 0, name, params).substitutions
    IN  \E i \in 1..Len(body) :
          LET expr == substitute(body[i], substitutions)
          IN  \/ extract_update_panics(expr)
              \/ /\ extract_update(expr)[1] /= None
                 /\ Unwrap(extract_update(expr)[1]) \notin DOMAIN c.registers

handle_instruction_def(c, hasher, start, body, name, params) ==
    LET col_name == "instr_" \o name
        c1 == create_witness_fixed_pair(c, start, col_name)
        looped == instruction_def_params(c1, hasher, start, name, params)
        c2 == instruction_def_body(looped.c, col_name, body, looped.substitutions)
    IN  [c2 EXCEPT !.instructions = MapInsert(@, name, Instruction(params))]

(***************************************************************************)
(* The assignment-value reducer.                                           *)
(***************************************************************************)
\* AffineExpressionComponent
ComponentRegister(reg) == [kind |-> "Register", reg |-> reg]

ComponentConstant == [kind |-> "Constant"]

ComponentFreeInput(exp) == [kind |-> "FreeInput", exp |-> exp]

RECURSIVE process_assignment_value_panics(_)
\* the panic!(), todo!() and assert!() of process_assignment_value
process_assignment_value_panics(value) ==
    CASE value.kind = "PolynomialReference" ->
           value.namespace /= None \/ value.index /= None \/ value.next
      [] value.kind = "Number" -> FALSE
      [] value.kind = "FreeInput" -> FALSE
      [] value.kind = "BinaryOperation" ->
           IF value.op \in {"Add", "Sub"}
             THEN \/ process_assignment_value_panics(value.left)
                  \/ process_assignment_value_panics(value.right)
             ELSE TRUE
      [] value.kind = "UnaryOperation" ->
           value.op /= "Minus" \/ process_assignment_value_panics(value.exp)
      [] OTHER -> TRUE

\* the mutant of add_assignment_value that puts the terms of the right operand
\* before those of the left one
add_assignment_value_right_first(left, right) == right \o left

add_assignment_value(left, right) == left \o right

\* the mutant of negate_assignment_value that makes every coefficient
\* negative instead of flipping its sign
negate_assignment_value_making_negative(expr) ==
    [i \in 1..Len(expr) |->
        <<IF expr[i][1] > 0 THEN -expr[i][1] ELSE expr[i][1], expr[i][2]>>]

negate_assignment_value(expr) ==
    [i \in 1..Len(expr) |-> <<-expr[i][1], expr[i][2]>>]

RECURSIVE process_assignment_value(_)
\* the list of (coefficient, component) of an expression the reducer accepts
process_assignment_value(value) ==
    CASE value.kind = "PolynomialReference" ->
           << <<1, ComponentRegister(value.name)>> >>
      [] value.kind = "Number" -> << <<value.value, ComponentConstant>> >>
      [] value.kind = "FreeInput" -> << <<1, ComponentFreeInput(value.exp)>> >>
      [] value.kind = "BinaryOperation" /\ value.op = "Add" ->
           add_assignment_value(process_assignment_value(value.left),
                                process_assignment_value(value.right))
      [] value.kind = "BinaryOperation" /\ value.op = "Sub" ->
           add_assignment_value(
               process_assignment_value(value.left),
               negate_assignment_value(process_assignment_value(value.right)))
      [] value.kind = "UnaryOperation" ->
           negate_assignment_value(process_assignment_value(value.exp))

(***************************************************************************)
(* Code lines.                                                             *)
(***************************************************************************)
CodeLine(write_reg, value, label, instruction, instruction_literal_args) ==
    [write_reg |-> write_reg, value |-> value, label |-> label,
     instruction |-> instruction,
     instruction_literal_args |-> instruction_literal_args]

\* CodeLine { label: Some(name), ..Default::default() }
handle_label(c, name) ==
    [c EXCEPT !.code_lines = Append(@, CodeLine(None, <<>>, Some(name), None, <<>>))]

handle_assignment_panics(c, write_regs, value) ==
    \/ Len(write_regs) > 1
    \/ process_assignment_value_panics(value)

handle_assignment(c, write_regs, value) ==
    LET write_reg == IF write_regs = <<>> THEN None ELSE Some(write_regs[1])
    IN  [c EXCEPT !.code_lines =
            Append(@, CodeLine(write_reg, process_assignment_value(value),
                               None, None, <<>>))]

IsBusParam(p) == p.assignment_reg[1] /= None \/ p.assignment_reg[2] /= None

handle_instruction_panics(c, instr_name, args) ==
    \/ instr_name \notin DOMAIN c.instructions
    \/ LET params == c.instructions[instr_name].params
       IN  \/ Len(params) /= Len(args)
           \/ \E i \in 1..Len(params) :
                IF IsBusParam(params[i])
                  THEN process_assignment_value_panics(args[i])
                ELSE IF params[i].param_type = Some("label")
                  THEN args[i].kind /= "PolynomialReference"
                ELSE TRUE

handle_instruction(c, instr_name, args) ==
    LET params == c.instructions[instr_name].params
        bus == { i \in 1..Len(params) : IsBusParam(params[i]) }
        \* every bus parameter overwrites value: the last one stays
        value == IF bus = {} THEN <<>>
                 ELSE process_assignment_value(
                          args[CHOOSE i \in bus : \A j \in bus : j <= i])
        instruction_literal_args ==
            [i \in 1..Len(params) |->
                IF IsBusParam(params[i]) THEN None ELSE Some(args[i].name)]
    IN  [c EXCEPT !.code_lines =
            Append(@, CodeLine(None, value, None, Some(instr_name),
                               instruction_literal_args))]

\* self.pil.extend(statements.clone())
handle_inline_pil(c, statements) == [c EXCEPT !.pil = @ \o statements]

(***************************************************************************)
(* The fixup phase: assignment bus, register updates, ROM, plookup.        *)
(***************************************************************************)
\* the mutant of non_bus_registers that does not filter the bus register out
non_bus_registers_unfiltered(c) == SortedKeys(DOMAIN c.registers)

\* the mutant of non_bus_registers that iterates the keys from the last to
\* the first
non_bus_registers_descending(c) ==
    LET names == SelectSeq(SortedKeys(DOMAIN c.registers),
                           LAMBDA name : name /= default_assignment_reg(c))
    IN  [k \in 1..Len(names) |-> names[Len(names) + 1 - k]]

\* self.registers.keys().filter(|name| **name != self.default_assignment_reg())
non_bus_registers(c) ==
    SelectSeq(SortedKeys(DOMAIN c.registers),
              LAMBDA name : name /= default_assignment_reg(c))

RECURSIVE create_read_coefficients(_, _)
\* the side effect of the closure mapped over the non-bus registers
create_read_coefficients(c, names) ==
    IF names = <<>> THEN c
    ELSE create_read_coefficients(
             create_witness_fixed_pair(
                 c, 0, "read_" \o default_assignment_reg(c) \o "_" \o Head(names)),
             Tail(names))

create_constraints_for_assignment_reg_panics(c) == c.default_assignment = None

create_constraints_for_assignment_reg(c) ==
    LET bus == default_assignment_reg(c)
        assign_const == bus \o "_const"
        read_free == bus \o "_read_free"
        free_value == bus \o "_free_value"
        c1 == create_witness_fixed_pair(c, 0, assign_const)
        c2 == create_witness_fixed_pair(c1, 0, read_free)
        c3 == [c2 EXCEPT !.pil = Append(@, witness_column(0, free_value))]
        registers == non_bus_registers(c3)
        c4 == create_read_coefficients(c3, registers)
        terms == [i \in 1..Len(registers) |->
                     build_mul(direct_reference("read_" \o bus \o "_" \o registers[i]),
                               direct_reference(registers[i]))]
                 \o << direct_reference(assign_const),
                       build_mul(direct_reference(read_free),
                                 direct_reference(free_value)) >>
        assign_constraint == reduce_build_add(terms)
    IN  [c4 EXCEPT !.pil = Append(@, PolynomialIdentity(
                      0, build_sub(direct_reference(bus), assign_constraint)))]

\* the mutant of update_expression that gives no update to a register without
\* conditioned updates
update_expression_without_default(reg) ==
    LET cu == reg.conditioned_updates
        products == [i \in 1..Len(cu) |-> build_mul(cu[i][1], cu[i][2])]
        conditions == [i \in 1..Len(cu) |-> cu[i][1]]
    IN  IF Len(cu) = 0 THEN None
        ELSE LET updates == reduce_build_add(products)
             IN  IF reg.default_update = None THEN Some(updates)
                 ELSE LET default_condition ==
                              build_sub(build_number(1),
                                        reduce_build_add(conditions))
                      IN  Some(build_add(updates,
                                         build_mul(default_condition,
                                                   Unwrap(reg.default_update))))

\* the mutant of update_expression that adds the default without its
\* condition
update_expression_unconditioned_default(reg) ==
    LET cu == reg.conditioned_updates
        products == [i \in 1..Len(cu) |-> build_mul(cu[i][1], cu[i][2])]
    IN  IF Len(cu) = 0 THEN reg.default_update
        ELSE LET updates == reduce_build_add(products)
             IN  IF reg.default_update = None THEN Some(updates)
                 ELSE Some(build_add(updates, Unwrap(reg.default_update)))

\* Register::update_expression, an Option<Expression>
update_expression(reg) ==
    LET cu == reg.conditioned_updates
        products == [i \in 1..Len(cu) |-> build_mul(cu[i][1], cu[i][2])]
        conditions == [i \in 1..Len(cu) |-> cu[i][1]]
    IN  IF Len(cu) = 0 THEN reg.default_update
        ELSE LET updates == reduce_build_add(products)
             IN  IF reg.default_update = None THEN Some(updates)
                 ELSE LET default_condition ==
                              build_sub(build_number(1),
                                        reduce_build_add(conditions))
                      IN  Some(build_add(updates,
                                         build_mul(default_condition,
                                                   Unwrap(reg.default_update))))

\* the register-next identities pushed by convert, in the order of the keys
register_update_identities(c) ==
    LET names == SelectSeq(SortedKeys(DOMAIN c.registers),
                           LAMBDA name : update_expression(c.registers[name]) /= None)
    IN  [i \in 1..Len(names) |->
            PolynomialIdentity(
                0, build_sub(next_reference(names[i]),
                             Unwrap(update_expression(c.registers[names[i]]))))]

RECURSIVE collect_label_positions(_, _, _, _)
collect_label_positions(m, hasher, code_lines, i) ==
    IF i > Len(code_lines) THEN m
    ELSE collect_label_positions(
             IF code_lines[i].label /= None
               THEN HashMap_insert(m, hasher, Unwrap(code_lines[i].label), i - 1)
               ELSE m,
             hasher, code_lines, i + 1)

\* the mutant of compute_label_positions that counts the rows from 1
compute_label_positions_from_one(c, hasher) ==
    collect_label_positions(HashMap_new, hasher,
                            <<CodeLine(None, <<>>, None, None, <<>>)>> \o c.code_lines, 1)

\* rows count from 0: the line code_lines[i] of the model is row i - 1
compute_label_positions(c, hasher) ==
    collect_label_positions(HashMap_new, hasher, c.code_lines, 1)

\* the mutant of write_reg_writes that sets no cell for the write register
write_reg_writes_skipped(line) == <<>>

\* The cells that a line sets are pairs <<constant name, value>>, in the order
\* in which the loop of create_fixed_columns_for_program sets them.
write_reg_writes(line) ==
    IF line.write_reg /= None
      THEN << <<"p_reg_write_" \o Unwrap(line.write_reg), 1>> >>
      ELSE <<>>

\* the mutant of value_writes that stores the coefficient of a free input
value_writes_free_coefficient(c, line) ==
    LET bus == default_assignment_reg(c)
    IN  [k \in 1..Len(line.value) |->
           LET coeff == line.value[k][1]
               item == line.value[k][2]
           IN  CASE item.kind = "Register" ->
                      <<"p_read_" \o bus \o "_" \o item.reg, coeff>>
                 [] item.kind = "Constant" -> <<"p_" \o bus \o "_const", coeff>>
                 [] item.kind = "FreeInput" -> <<"p_" \o bus \o "_read_free", coeff>>]

value_writes(c, line) ==
    LET bus == default_assignment_reg(c)
    IN  [k \in 1..Len(line.value) |->
           LET coeff == line.value[k][1]
               item == line.value[k][2]
           IN  CASE item.kind = "Register" ->
                      <<"p_read_" \o bus \o "_" \o item.reg, coeff>>
                 [] item.kind = "Constant" -> <<"p_" \o bus \o "_const", coeff>>
                 [] item.kind = "FreeInput" -> <<"p_" \o bus \o "_read_free", 1>>]

\* the mutant of instruction_writes that leaves the parameter out of the name
\* of the column that takes the label position
instruction_writes_into_flag(c, label_positions, line) ==
    IF line.instruction /= None
      THEN LET name == Unwrap(line.instruction)
               params == c.instructions[name].params
               args == line.instruction_literal_args
               n == IF Len(args) < Len(params) THEN Len(args) ELSE Len(params)
               zipped == SelectSeq([k \in 1..n |-> k], LAMBDA k : args[k] /= None)
           IN  << <<"p_instr_" \o name, 1>> >>
               \o [k \in 1..Len(zipped) |->
                     <<"p_instr_" \o name,
                       HashMap_get(label_positions, Unwrap(args[zipped[k]]))>>]
      ELSE <<>>

\* a literal argument whose label is missing panics: see line_label_missing
instruction_writes(c, label_positions, line) ==
    IF line.instruction /= None
      THEN LET name == Unwrap(line.instruction)
               params == c.instructions[name].params
               args == line.instruction_literal_args
               n == IF Len(args) < Len(params) THEN Len(args) ELSE Len(params)
               zipped == SelectSeq([k \in 1..n |-> k], LAMBDA k : args[k] /= None)
           IN  << <<"p_instr_" \o name, 1>> >>
               \o [k \in 1..Len(zipped) |->
                     <<"p_instr_" \o name \o "_param_" \o params[zipped[k]].name,
                       HashMap_get(label_positions, Unwrap(args[zipped[k]]))>>]
      ELSE <<>>

line_writes(c, label_positions, i) ==
    write_reg_writes(c.code_lines[i])
    \o value_writes(c, c.code_lines[i])
    \o instruction_writes(c, label_positions, c.code_lines[i])

\* label_positions[arg] of a label no line carries
line_label_missing(c, label_positions, i) ==
    LET line == c.code_lines[i]
    IN  /\ line.instruction /= None
        /\ \E k \in 1..Len(line.instruction_literal_args) :
             /\ k <= Len(c.instructions[Unwrap(line.instruction)].params)
             /\ line.instruction_literal_args[k] /= None
             /\ ~HashMap_contains_key(label_positions,
                                      Unwrap(line.instruction_literal_args[k]))

RECURSIVE set_cells(_, _, _)
RECURSIVE set_cells_adding(_, _, _)
\* the mutant of set_cells that adds the value to the cell
set_cells_adding(program_constants, writes, i) ==
    IF writes = <<>> THEN program_constants
    ELSE set_cells_adding(
             [program_constants EXCEPT ![Head(writes)[1]][i] = @ + Head(writes)[2]],
             Tail(writes), i)

\* program_constants.get_mut(name).unwrap()[i] = value, one write after another
set_cells(program_constants, writes, i) ==
    IF writes = <<>> THEN program_constants
    ELSE set_cells([program_constants EXCEPT ![Head(writes)[1]][i] = Head(writes)[2]],
                   Tail(writes), i)

RECURSIVE fill_program_constants(_, _, _, _)
fill_program_constants(program_constants, c, label_positions, i) ==
    IF i > Len(c.code_lines) THEN program_constants
    ELSE fill_program_constants(
             set_cells(program_constants, line_writes(c, label_positions, i), i),
             c, label_positions, i + 1)

\* the BTreeMap of the program constants, each a vector of zeros
zero_program_constants(c) ==
    [n \in { c.program_constant_names[k] : k \in 1..Len(c.program_constant_names) } |->
        [i \in 1..Len(c.code_lines) |-> 0]]

create_fixed_columns_for_program_panics(c, hasher) ==
    LET label_positions == compute_label_positions(c, hasher)
        names == DOMAIN zero_program_constants(c)
    IN  \E i \in 1..Len(c.code_lines) :
          \/ c.code_lines[i].instruction /= None
               /\ Unwrap(c.code_lines[i].instruction) \notin DOMAIN c.instructions
          \/ line_label_missing(c, label_positions, i)
          \/ LET writes == line_writes(c, label_positions, i)
             IN  \E k \in 1..Len(writes) : writes[k][1] \notin names

\* the mutant of create_fixed_columns_for_program that keeps the program
\* constants in a HashMap and emits them in its iteration order
create_fixed_columns_for_program_hashed(c, hasher) ==
    LET line == PolynomialConstantDefinition(
                    0, "line", Mapping(<<"i">>, direct_reference("i")))
        label_positions == compute_label_positions(c, hasher)
        program_constants ==
            fill_program_constants(zero_program_constants(c), c, label_positions, 1)
        sorted == SortedKeys(DOMAIN program_constants)
        names == IF hasher = "ascending" THEN sorted
                 ELSE [k \in 1..Len(sorted) |-> sorted[Len(sorted) + 1 - k]]
    IN  [c EXCEPT !.pil =
            Append(@, line)
            \o [k \in 1..Len(names) |->
                  PolynomialConstantDefinition(
                      0, names[k],
                      Array([i \in 1..Len(c.code_lines) |->
                                build_number(program_constants[names[k]][i])]))]]

create_fixed_columns_for_program(c, hasher) ==
    LET line == PolynomialConstantDefinition(
                    0, "line", Mapping(<<"i">>, direct_reference("i")))
        label_positions == compute_label_positions(c, hasher)
        program_constants ==
            fill_program_constants(zero_program_constants(c), c, label_positions, 1)
        names == SortedKeys(DOMAIN program_constants)
    IN  [c EXCEPT !.pil =
            Append(@, line)
            \o [k \in 1..Len(names) |->
                  PolynomialConstantDefinition(
                      0, names[k],
                      Array([i \in 1..Len(c.code_lines) |->
                                build_number(program_constants[names[k]][i])]))]]

\* the mutant of plookup_identity that takes the right side from the names
\* of the program constants
plookup_identity_from_program_constants(c) ==
    PlookupIdentity(
        0,
        SelectedExpressions(None, [k \in 1..Len(c.line_lookup) |->
                                      direct_reference(c.line_lookup[k][1])]),
        SelectedExpressions(None, [k \in 1..Len(c.program_constant_names) |->
                                      direct_reference(c.program_constant_names[k])]))

plookup_identity(c) ==
    PlookupIdentity(
        0,
        SelectedExpressions(None, [k \in 1..Len(c.line_lookup) |->
                                      direct_reference(c.line_lookup[k][1])]),
        SelectedExpressions(None, [k \in 1..Len(c.line_lookup) |->
                                      direct_reference(c.line_lookup[k][2])]))

\* what convert does after the loop over the statements
convert_fixup_panics(c, hasher) ==
    \/ create_constraints_for_assignment_reg_panics(c)
    \/ create_fixed_columns_for_program_panics(
           create_constraints_for_assignment_reg(c), hasher)

\* the mutant of convert_fixup that pushes the plookup identity before the
\* fixed columns of the program
convert_fixup_plookup_before_rom(c, hasher) ==
    LET c1 == create_constraints_for_assignment_reg(c)
        c2 == [c1 EXCEPT !.pil = @ \o register_update_identities(c1)]
        c3 == [c2 EXCEPT !.pil = Append(@, plookup_identity(c2))]
    IN  create_fixed_columns_for_program(c3, hasher)

convert_fixup(c, hasher) ==
    LET c1 == create_constraints_for_assignment_reg(c)
        c2 == [c1 EXCEPT !.pil = @ \o register_update_identities(c1)]
        c3 == create_fixed_columns_for_program(c2, hasher)
    IN  [c3 EXCEPT !.pil = Append(@, plookup_identity(c3))]

(***************************************************************************)
(* Input statements (parser::asm_ast::ASMStatement).                       *)
(***************************************************************************)
RegisterDeclaration(start, name, flags) ==
    [kind |-> "RegisterDeclaration", start |-> start, name |-> name, flags |-> flags]

InstructionDeclaration(start, name, params, body) ==
    [kind |-> "InstructionDeclaration", start |-> start, name |-> name,
     params |-> params, body |-> body]

InlinePil(start, statements) ==
    [kind |-> "InlinePil", start |-> start, statements |-> statements]

Assignment(start, write_regs, assign_reg, value) ==
    [kind |-> "Assignment", start |-> start, write_regs |-> write_regs,
     assign_reg |-> assign_reg, value |-> value]

ASMInstruction(start, instr_name, args) ==
    [kind |-> "Instruction", start |-> start, instr_name |-> instr_name, args |-> args]

Label(start, name) == [kind |-> "Label", start |-> start, name |-> name]

\* the arm of the match in convert's loop panics
ingest_panics(c, k, statement) ==
    CASE statement.kind = "RegisterDeclaration" ->
           handle_register_declaration_panics(c, statement.flags, statement.name)
      [] statement.kind = "InstructionDeclaration" ->
           handle_instruction_def_panics(c, k, statement.body, statement.name,
                                         statement.params)
      [] statement.kind = "InlinePil" -> FALSE
      [] statement.kind = "Assignment" ->
           handle_assignment_panics(c, statement.write_regs, statement.value)
      [] statement.kind = "Instruction" ->
           handle_instruction_panics(c, statement.instr_name, statement.args)
      [] statement.kind = "Label" -> FALSE

\* one turn of convert's loop over the statements
ingest(c, k, statement) ==
    CASE statement.kind = "RegisterDeclaration" ->
           handle_register_declaration(c, statement.flags, statement.name,
                                       statement.start)
      [] statement.kind = "InstructionDeclaration" ->
           handle_instruction_def(c, k, statement.start, statement.body,
                                  statement.name, statement.params)
      [] statement.kind = "InlinePil" -> handle_inline_pil(c, statement.statements)
      [] statement.kind = "Assignment" ->
           handle_assignment(c, statement.write_regs, statement.value)
      [] statement.kind = "Instruction" ->
           handle_instruction(c, statement.instr_name, statement.args)
      [] statement.kind = "Label" -> handle_label(c, statement.name)

RECURSIVE convert_loop(_, _, _)
\* convert's loop over the statements of a file: the converter after it, or
\* None when a statement panics
convert_loop(c, hasher, statements) ==
    IF statements = <<>> THEN Some(c)
    ELSE IF ingest_panics(c, hasher, Head(statements)) THEN None
    ELSE convert_loop(ingest(c, hasher, Head(statements)), hasher, Tail(statements))

\* ASMPILConverter::new().convert(ast) under a hasher: Some(PILFile), or None
\* when the conversion panics
convert(file, hasher) ==
    LET looped == convert_loop(ASMPILConverter_new, hasher, file)
    IN  IF looped = None THEN None
        ELSE IF convert_fixup_panics(Unwrap(looped), hasher) THEN None
        ELSE Some(convert_fixup(Unwrap(looped), hasher).pil)

(***************************************************************************)
(* The statements the model draws its ASM files from.  A file is laid out  *)
(* like the repository's test programs: the register declarations, then    *)
(* the instruction declarations and inline PIL, then the program.          *)
(***************************************************************************)
RegisterDecls ==
    { RegisterDeclaration(1, "X", Some("IsDefaultAssignment")),
      RegisterDeclaration(2, "pc", Some("IsPC")),
      RegisterDeclaration(3, "A", None) }

LabelParam(name) == InstructionParam(name, Some("label"), <<None, None>>)

BusParam(name) == InstructionParam(name, None, <<Some("X"), None>>)

InstructionDecls ==
    { \* instr jmp l: label { pc' = l }
      InstructionDeclaration(5, "jmp", <<LabelParam("l")>>,
          <<build_sub(next_reference("pc"), direct_reference("l"))>>),
      \* instr jmpz <=X= c, l: label { pc' = XIsZero * l + (1 - XIsZero) * (pc + 1) }
      InstructionDeclaration(6, "jmpz", <<BusParam("c"), LabelParam("l")>>,
          <<build_sub(next_reference("pc"),
              build_add(build_mul(direct_reference("XIsZero"), direct_reference("l")),
                        build_mul(build_sub(build_number(1), direct_reference("XIsZero")),
                                  build_add(direct_reference("pc"), build_number(1)))))>>),
      \* instr assert_zero <=X= a { XIsZero = 1 }
      InstructionDeclaration(8, "assert_zero", <<BusParam("a")>>,
          <<build_sub(direct_reference("XIsZero"), build_number(1))>>) }

InlinePils ==
    { \* pil{ pol commit XInv; XIsZero * X = 0; }
      InlinePil(9, << witness_column(9, "XInv"),
                      PolynomialIdentity(9, build_mul(direct_reference("XIsZero"),
                                                      direct_reference("X"))) >>) }

Assignments ==
    { \* A <=X= A - ${ };
      Assignment(11, <<"A">>, Some("X"),
                 build_sub(direct_reference("A"), FreeInput(Tuple(<<>>)))),
      \* pc <=X= 1;
      Assignment(12, <<"pc">>, Some("X"), build_number(1)) }

Instructions ==
    { \* jmp start;
      ASMInstruction(14, "jmp", <<direct_reference("start")>>),
      \* jmpz A, end;
      ASMInstruction(16, "jmpz", <<direct_reference("A"), direct_reference("end")>>),
      \* assert_zero A;
      ASMInstruction(18, "assert_zero", <<direct_reference("A")>>) }

Labels == { Label(19, "start"), Label(20, "end") }

\* the part of the file a statement belongs to
Part(statement) ==
    CASE statement.kind = "RegisterDeclaration" -> 1
      [] statement.kind \in {"InstructionDeclaration", "InlinePil"} -> 2
      [] OTHER -> 3

(***************************************************************************)
(* The state machine: convert takes the statements one by one, then runs   *)
(* the fixup phase.  A panic ends the compilation without a PIL.           *)
(***************************************************************************)
Init ==
    /\ asm_input = <<>>
    /\ random_state = "ascending"
    /\ self = ASMPILConverter_new
    /\ status = "ingest"
    /\ traversal = [visits |-> 0]

\* the next statement of the file can be `statement`
CanTake(statement) ==
    /\ status = "ingest"
    /\ Len(asm_input) < MaxStmts
    /\ \A i \in 1..Len(asm_input) : Part(asm_input[i]) <= Part(statement)

\* convert's loop takes `statement`
Take(statement) ==
    /\ asm_input' = Append(asm_input, statement)
    /\ random_state' = random_state
    /\ UNCHANGED traversal
    /\ IF ingest_panics(self, random_state, statement)
         THEN status' = "panic_ingest" /\ self' = self
         ELSE status' = status /\ self' = ingest(self, random_state, statement)

DeclareRegister == \E s \in RegisterDecls : CanTake(s) /\ Take(s)

DeclareInstruction == \E s \in InstructionDecls : CanTake(s) /\ Take(s)

IncludePil == \E s \in InlinePils : CanTake(s) /\ Take(s)

Assign == \E s \in Assignments : CanTake(s) /\ Take(s)

Invoke == \E s \in Instructions : CanTake(s) /\ Take(s)

PlaceLabel == \E s \in Labels : CanTake(s) /\ Take(s)

\* the end of the file: the fixup phase
Finish ==
    /\ status = "ingest"
    /\ UNCHANGED <<asm_input, random_state, traversal>>
    /\ IF convert_fixup_panics(self, random_state)
         THEN status' = "panic_fixup" /\ self' = self
         ELSE status' = "done" /\ self' = convert_fixup(self, random_state)

Next ==
    \/ DeclareRegister
    \/ DeclareInstruction
    \/ IncludePil
    \/ Assign
    \/ Invoke
    \/ PlaceLabel
    \/ Finish

Spec == Init /\ [][Next]_vars

(***************************************************************************)
(* Reading the output.                                                     *)
(***************************************************************************)
Done == status = "done"

\* the places of the output that declare the witness column w
WitnessDeclarations(w) ==
    { i \in 1..Len(self.pil) :
        /\ self.pil[i].kind = "PolynomialCommitDeclaration"
        /\ \E n \in 1..Len(self.pil[i].names) : self.pil[i].names[n].name = w }

\* the places of the output that define the fixed column f
FixedDefinitions(f) ==
    { i \in 1..Len(self.pil) :
        /\ self.pil[i].kind = "PolynomialConstantDefinition"
        /\ self.pil[i].name = f }

\* the places of the line-lookup that hold the pair <<w, f>>
LookupPlaces(w, f) ==
    { k \in 1..Len(self.line_lookup) : self.line_lookup[k] = <<w, f>> }

\* the statements of the file that declare a register
RegisterDeclarationsIn(file) ==
    { i \in 1..Len(file) : file[i].kind = "RegisterDeclaration" }

(***************************************************************************)
(* C1  Column declaration completeness.                                    *)
(***************************************************************************)
\* C1 as claimed: after compile, for every pair (w, f) of the line-lookup the
\* output has exactly one witness-column declaration for w and exactly one
\* fixed-column definition for f, and that definition is a vector as long as
\* the code lines; for every pair, the pc pair and repeated pairs included.
C1_AsClaimed ==
    Done =>
      \A k \in 1..Len(self.line_lookup) :
        LET w == self.line_lookup[k][1]
            f == self.line_lookup[k][2]
        IN  /\ Cardinality(WitnessDeclarations(w)) = 1
            /\ Cardinality(FixedDefinitions(f)) = 1
            /\ \A i \in FixedDefinitions(f) :
                 /\ self.pil[i].definition.kind = "Array"
                 /\ Len(self.pil[i].definition.values) = Len(self.code_lines)

\* C1 as amended: after compile, for every pair (w, f) of the line-lookup the
\* output has one witness-column declaration for w per occurrence of w on
\* the left of the line-lookup (so at least one, and more than one for a pair
\* that a repeated declaration created again) and exactly one fixed-column
\* definition for f; that definition is a vector as long as the code lines,
\* except for the pc pair, whose fixed column `line` is the mapping i -> i.
C1_ColumnDeclarationCompleteness ==
    Done =>
      \A k \in 1..Len(self.line_lookup) :
        LET w == self.line_lookup[k][1]
            f == self.line_lookup[k][2]
            left == { j \in 1..Len(self.line_lookup) : self.line_lookup[j][1] = w }
        IN  /\ Cardinality(WitnessDeclarations(w)) = Cardinality(left)
            /\ Cardinality(FixedDefinitions(f)) = 1
            /\ \A i \in FixedDefinitions(f) :
                 IF f = "line"
                   THEN /\ self.pc_name = Some(w)
                        /\ self.pil[i].definition =
                             Mapping(<<"i">>, direct_reference("i"))
                   ELSE /\ self.pil[i].definition.kind = "Array"
                        /\ Len(self.pil[i].definition.values) = Len(self.code_lines)

\* a finished compilation with code lines, the pc pair and a pair that a
\* repeated declaration created twice
C1_Witness ==
    /\ Done
    /\ self.code_lines /= <<>>
    /\ \E k \in 1..Len(self.line_lookup) : self.line_lookup[k][2] = "line"
    /\ \E k \in 1..Len(self.line_lookup) :
         Cardinality(LookupPlaces(self.line_lookup[k][1], self.line_lookup[k][2])) > 1

(***************************************************************************)
(* Reading the ROM and the program of the file.                            *)
(***************************************************************************)
\* the cell of the fixed column f at row i (rows count from 0)
Cell(f, i) ==
    LET d == CHOOSE d \in FixedDefinitions(f) : TRUE
    IN  self.pil[d].definition.values[i + 1].value

\* the statements of the file that make a code line, in order: the statement
\* ProgramLines(file)[i + 1] makes row i
ProgramLines(file) == SelectSeq(file, LAMBDA statement : Part(statement) = 3)

Rows == 0..(Len(ProgramLines(asm_input)) - 1)

\* the names the file declares as registers with the given flags
DeclaredRegisters(file, flags) ==
    { file[i].name : i \in { j \in RegisterDeclarationsIn(file) : file[j].flags = flags } }

\* the names the file declares as instructions
DeclaredInstructions(file) ==
    { file[i].name : i \in { j \in 1..Len(file) :
                               file[j].kind = "InstructionDeclaration" } }

\* the parameters of the last declaration of instruction name in the file
DeclaredParams(file, name) ==
    LET decls == { j \in 1..Len(file) : /\ file[j].kind = "InstructionDeclaration"
                                        /\ file[j].name = name }
    IN  file[CHOOSE j \in decls : \A h \in decls : h <= j].params

\* the rows whose statement is the label a
LabelRows(file, a) ==
    { j \in 0..(Len(ProgramLines(file)) - 1) :
        /\ ProgramLines(file)[j + 1].kind = "Label"
        /\ ProgramLines(file)[j + 1].name = a }

\* no two label statements of the file carry the same name
LabelsUnique(file) ==
    \A i, j \in 1..Len(file) :
      file[i].kind = "Label" /\ file[j].kind = "Label" /\ file[i].name = file[j].name
        => i = j

RECURSIVE Sum(_)
\* the sum of the values of a function with a finite domain
Sum(f) ==
    IF DOMAIN f = {} THEN 0
    ELSE LET x == CHOOSE x \in DOMAIN f : TRUE
         IN  f[x] + Sum([y \in DOMAIN f \ {x} |-> f[y]])

(***************************************************************************)
(* C2  Label-substitution round-trip.                                      *)
(***************************************************************************)
\* C2: given unique label names, for every row i that invokes instruction I
\* with a label-typed literal argument a at parameter p, the fixed column
\* p_instr_{I}_param_{p} holds at row i the row of the line whose label is a,
\* whether that line comes before or after row i; label lines count as rows.
C2_LabelRoundTrip ==
    Done /\ LabelsUnique(asm_input) =>
      \A i \in Rows :
        LET line == ProgramLines(asm_input)[i + 1]
        IN  line.kind = "Instruction" =>
              LET params == DeclaredParams(asm_input, line.instr_name)
              IN  \A p \in 1..Len(params) :
                    ~IsBusParam(params[p]) /\ params[p].param_type = Some("label") =>
                      /\ LabelRows(asm_input, line.args[p].name) /= {}
                      /\ \A j \in LabelRows(asm_input, line.args[p].name) :
                           Cell("p_instr_" \o line.instr_name \o "_param_"
                                    \o params[p].name, i) = j

\* a finished compilation in which one label is the target of an invocation
\* before it and of an invocation after it, and is not at row 0
C2_Witness ==
    /\ Done
    /\ LabelsUnique(asm_input)
    /\ \E i, j, h \in Rows :
         /\ i < j /\ j < h
         /\ ProgramLines(asm_input)[j + 1].kind = "Label"
         /\ \A r \in {i, h} :
              /\ ProgramLines(asm_input)[r + 1].kind = "Instruction"
              /\ \E p \in 1..Len(ProgramLines(asm_input)[r + 1].args) :
                   ProgramLines(asm_input)[r + 1].args[p] =
                     direct_reference(ProgramLines(asm_input)[j + 1].name)

RECURSIVE ReferenceNames(_)
RECURSIVE ReferenceNamesOfAll(_)
\* the names of the polynomial references of an expression, from left to right
ReferenceNames(e) ==
    CASE e.kind = "PolynomialReference" -> <<e.name>>
      [] e.kind = "BinaryOperation" -> ReferenceNames(e.left) \o ReferenceNames(e.right)
      [] e.kind = "UnaryOperation" -> ReferenceNames(e.exp)
      [] e.kind = "FreeInput" -> ReferenceNames(e.exp)
      [] e.kind = "Tuple" -> ReferenceNamesOfAll(e.items)
      [] e.kind = "FunctionCall" -> ReferenceNamesOfAll(e.args)
      [] OTHER -> <<>>

ReferenceNamesOfAll(items) ==
    IF items = <<>> THEN <<>>
    ELSE ReferenceNames(Head(items)) \o ReferenceNamesOfAll(Tail(items))

RECURSIVE Products(_)
\* the products that occur in a sum of terms
Products(e) ==
    IF e.kind = "BinaryOperation" /\ e.op = "Add"
      THEN Products(e.left) \cup Products(e.right)
    ELSE IF e.kind = "BinaryOperation" /\ e.op = "Mul" THEN {e}
    ELSE {}

Occurrences(seq, x) == Cardinality({ i \in 1..Len(seq) : seq[i] = x })

\* the places of the output with an identity `left = ...`
IdentitiesOf(left) ==
    { i \in 1..Len(self.pil) :
        /\ self.pil[i].kind = "PolynomialIdentity"
        /\ self.pil[i].expr.kind = "BinaryOperation"
        /\ self.pil[i].expr.op = "Sub"
        /\ self.pil[i].expr.left = left }

(***************************************************************************)
(* C4  Assignment-bus closure.                                             *)
(***************************************************************************)
\* C4: the right-hand side of the emitted bus identity mentions every declared
\* non-bus register exactly once, each inside a product read_{bus}_{r} * r,
\* never mentions the bus register itself, and mentions no column that the
\* output does not declare.
C4_AssignmentBusClosure ==
    Done =>
      LET bus == Unwrap(self.default_assignment)
          declared == { asm_input[i].name : i \in RegisterDeclarationsIn(asm_input) }
      IN  /\ Cardinality(IdentitiesOf(direct_reference(bus))) = 1
          /\ \A i \in IdentitiesOf(direct_reference(bus)) :
               LET rhs == self.pil[i].expr.right
                   names == ReferenceNames(rhs)
               IN  /\ \A r \in declared \ {bus} :
                         /\ Occurrences(names, r) = 1
                         /\ build_mul(direct_reference("read_" \o bus \o "_" \o r),
                                      direct_reference(r)) \in Products(rhs)
                   /\ Occurrences(names, bus) = 0
                   /\ \A n \in 1..Len(names) : WitnessDeclarations(names[n]) /= {}

\* a finished compilation of a file that declares the bus, the pc and a plain
\* register, one of them twice
C4_Witness ==
    /\ Done
    /\ DeclaredRegisters(asm_input, None) /= {}
    /\ DeclaredRegisters(asm_input, Some("IsPC")) /= {}
    /\ Cardinality(RegisterDeclarationsIn(asm_input)) > 3

(***************************************************************************)
(* C5  PC identity uniqueness.                                             *)
(***************************************************************************)
\* C5: in the output of compile exactly one register-next identity has
\* next_reference(pc_name) as its left-hand side (pc_name being the register
\* that the file declares with the pc flag).
C5_PcIdentityUniqueness ==
    Done =>
      \A pc \in DeclaredRegisters(asm_input, Some("IsPC")) :
        Cardinality(IdentitiesOf(next_reference(pc))) = 1

\* a finished compilation of a file with a pc register and two instructions
\* whose bodies update it
C5_Witness ==
    /\ Done
    /\ self.pc_name /= None
    /\ Len(self.registers[Unwrap(self.pc_name)].conditioned_updates) >= 2

(***************************************************************************)
(* C6  Determinism.  The files are those whose compilation fills the hash  *)
(* maps: an instruction with two literal parameters (two substitutions)    *)
(* and two labels (two label positions).                                   *)
(***************************************************************************)
MaxHashed == 6

HashedStatements ==
    { RegisterDeclaration(1, "X", Some("IsDefaultAssignment")),
      RegisterDeclaration(2, "pc", Some("IsPC")),
      \* instr jmp l: label { pc' = l }
      InstructionDeclaration(5, "jmp", <<LabelParam("l")>>,
          <<build_sub(next_reference("pc"), direct_reference("l"))>>),
      \* instr br l: label, m: label { pc' = XIsZero * l + (1 - XIsZero) * m }
      InstructionDeclaration(6, "br", <<LabelParam("l"), LabelParam("m")>>,
          <<build_sub(next_reference("pc"),
              build_add(build_mul(direct_reference("XIsZero"), direct_reference("l")),
                        build_mul(build_sub(build_number(1), direct_reference("XIsZero")),
                                  direct_reference("m"))))>>),
      \* jmp start;
      ASMInstruction(14, "jmp", <<direct_reference("start")>>),
      \* br end, start;
      ASMInstruction(16, "br", <<direct_reference("end"), direct_reference("start")>>),
      Label(19, "start"),
      Label(20, "end") }

TakeHashed ==
    \E s \in HashedStatements :
        /\ status = "ingest"
        /\ Len(asm_input) < MaxHashed
        /\ \A i \in 1..Len(asm_input) : Part(asm_input[i]) <= Part(s)
        /\ Take(s)

NextDeterminism == TakeHashed \/ Finish

SpecDeterminism == Init /\ [][NextDeterminism]_vars

\* C6: two runs of compile on the same statement sequence, each on a fresh
\* converter, produce the same PIL statement sequence, whatever the iteration
\* order of the hash maps of the two runs: the output of this run is the
\* output of a fresh run on the same file under every other hasher, and a
\* run that panics panics under every other hasher.
C6_Determinism ==
    \A h \in HasherKeys \ {random_state} :
        /\ Done => convert(asm_input, h) = Some(self.pil)
        /\ status \in {"panic_ingest", "panic_fixup"} => convert(asm_input, h) = None

\* a finished compilation that invokes an instruction with two literal
\* parameters in a program with two labels: the substitutions and the label
\* positions are hash maps of two entries, iterated in another order under
\* another hasher
C6_Witness ==
    /\ Done
    /\ \E i \in 1..Len(asm_input) :
         /\ asm_input[i].kind = "InstructionDeclaration"
         /\ instruction_def_params(ASMPILConverter_new, "ascending", 0,
                                   asm_input[i].name, asm_input[i].params).substitutions
              /= instruction_def_params(ASMPILConverter_new, "descending", 0,
                                        asm_input[i].name,
                                        asm_input[i].params).substitutions
         /\ \E j \in 1..Len(asm_input) :
              /\ asm_input[j].kind = "Instruction"
              /\ asm_input[j].instr_name = asm_input[i].name
    /\ Len(compute_label_positions(self, "ascending")) = 2
    /\ compute_label_positions(self, "ascending")
         /= compute_label_positions(self, "descending")
    /\ Len(self.program_constant_names) > 2

(***************************************************************************)
(* C7  The assignment reducer on right-hand sides and their double         *)
(* negations.  The program is a sequence of assignments A <=X= e.          *)
(***************************************************************************)
MaxValues == 2

ReducerLeaves ==
    { build_number(2), direct_reference("A"), FreeInput(Tuple(<<>>)) }

ReducerSums ==
    { build_binary_expr(l, op, r) :
        l \in ReducerLeaves, op \in {"Add", "Sub"}, r \in ReducerLeaves }

\* right-hand sides: the reducer accepts all of them but the product and the
\* shifted reference
ReducerBase ==
    ReducerLeaves
    \cup ReducerSums
    \cup { build_unary_expr("Minus", l) : l \in ReducerLeaves }
    \cup { build_unary_expr("Minus", build_sub(l, r)) :
             l \in ReducerLeaves, r \in ReducerLeaves }
    \cup { build_sub(l, build_sub(direct_reference("A"), build_number(2))) :
             l \in ReducerLeaves }
    \cup { build_mul(direct_reference("A"), build_number(2)),
           next_reference("A") }

Negated(e) == build_unary_expr("Minus", e)

ReducerValues == ReducerBase \cup { Negated(Negated(e)) : e \in ReducerBase }

AssignValue ==
    \E e \in ReducerValues :
        /\ status = "ingest"
        /\ Len(asm_input) < MaxValues
        /\ Take(Assignment(11, <<"A">>, Some("X"), e))

NextReducer == AssignValue

SpecReducer == Init /\ [][NextReducer]_vars

\* C7: for every expression e that the reducer accepts, reducing -(-e)
\* yields the same assignment-value list as reducing e (same length, same
\* order, equal coefficients, structurally equal components): whenever the
\* value of an accepted assignment is e and the value of another assignment
\* is -(-e), the other one is accepted too and the two code lines carry the
\* same list.
C7_NegationInvolution ==
    \A j \in 1..Len(self.code_lines) : \A i \in 1..Len(asm_input) :
        asm_input[i].value = Negated(Negated(asm_input[j].value)) =>
            /\ i <= Len(self.code_lines)
            /\ self.code_lines[i].value = self.code_lines[j].value

\* an accepted e of several terms, with coefficients of both signs and one
\* that is not a unit, next to its double negation
C7_Witness ==
    /\ status = "ingest"
    /\ Len(asm_input) = 2
    /\ asm_input[2].value = Negated(Negated(asm_input[1].value))
    /\ LET value == self.code_lines[2].value
       IN  /\ Len(value) >= 2
           /\ \E a \in 1..Len(value) : value[a][1] < 0
           /\ \E a \in 1..Len(value) : value[a][1] > 1
           /\ \E a \in 1..Len(value) : value[a][2].kind = "FreeInput"

(***************************************************************************)
(* C8  substitute on the bodies of instruction declarations.  The program  *)
(* declares an instruction I whose body is one expression; the literal     *)
(* parameters of the declaration are the keys of the substitution.         *)
(***************************************************************************)
MaxBodies == 1

SubstituteReferences ==
    { direct_reference("l"),
      direct_reference("A"),
      next_reference("l"),
      PolynomialReference(Some("N"), "A", None, FALSE),
      PolynomialReference(None, "l", Some(direct_reference("l")), FALSE),
      PolynomialReference(Some("N"), "l", Some(direct_reference("l")), TRUE) }

SubstituteLeaves ==
    SubstituteReferences
    \cup { build_number(1), Constant("l"), PublicReference("l"), String("l"),
           FreeInput(direct_reference("l")) }

SubstituteBodies ==
    SubstituteLeaves
    \cup { build_unary_expr("Minus", e) : e \in SubstituteLeaves }
    \cup { build_mul(e, direct_reference("l")) : e \in SubstituteLeaves }
    \cup { build_sub(direct_reference("A"), e) : e \in SubstituteLeaves }
    \cup { Tuple(<<e, direct_reference("l")>>) : e \in SubstituteLeaves }
    \cup { FunctionCall("l", <<e>>) : e \in SubstituteLeaves }
    \cup { build_add(build_unary_expr("Minus", next_reference("l")),
                     FunctionCall("A", <<Tuple(<<direct_reference("l")>>),
                                         build_mul(direct_reference("A"),
                                                   direct_reference("l"))>>)) }

SubstituteParams ==
    { <<>>, <<LabelParam("l")>>, <<BusParam("l")>>,
      <<LabelParam("A"), LabelParam("l")>> }

DeclareBody ==
    \E body \in SubstituteBodies, params \in SubstituteParams :
        /\ status = "ingest"
        /\ Len(asm_input) < MaxBodies
        /\ Take(InstructionDeclaration(5, "I", params, <<body>>))

NextSubstitute == DeclareBody

SpecSubstitute == Init /\ [][NextSubstitute]_vars

\* the keys of the substitution of a declaration: its literal parameters
SubstitutionKeys(declaration) ==
    { declaration.params[p].name :
        p \in { q \in 1..Len(declaration.params) :
                  ~IsBusParam(declaration.params[q]) } }

RECURSIVE OnlyNamesRewritten(_, _, _, _)
\* `out` is `e` but for the name of the polynomial references whose name is
\* in keys: same operators, same operands in the same order, same namespace,
\* index and next flag, every other leaf as it was
OnlyNamesRewritten(e, out, keys, instr) ==
    /\ out.kind = e.kind
    /\ CASE e.kind = "PolynomialReference" ->
              /\ out.namespace = e.namespace
              /\ out.index = e.index
              /\ out.next = e.next
              /\ out.name = IF e.name \in keys
                              THEN "instr_" \o instr \o "_param_" \o e.name
                              ELSE e.name
         [] e.kind = "BinaryOperation" ->
              /\ out.op = e.op
              /\ OnlyNamesRewritten(e.left, out.left, keys, instr)
              /\ OnlyNamesRewritten(e.right, out.right, keys, instr)
         [] e.kind = "UnaryOperation" ->
              /\ out.op = e.op
              /\ OnlyNamesRewritten(e.exp, out.exp, keys, instr)
         [] e.kind = "FunctionCall" ->
              /\ out.name = e.name
              /\ Len(out.args) = Len(e.args)
              /\ \A i \in 1..Len(e.args) :
                   OnlyNamesRewritten(e.args[i], out.args[i], keys, instr)
         [] e.kind = "Tuple" ->
              /\ Len(out.items) = Len(e.items)
              /\ \A i \in 1..Len(e.items) :
                   OnlyNamesRewritten(e.items[i], out.items[i], keys, instr)
         [] OTHER -> out = e

\* the declaration taken last and the expression its identity constrains
LastDeclaration == asm_input[Len(asm_input)]

LastSubstituted == self.pil[Len(self.pil)].expr.right

\* C8: substitute(e, empty map) is structurally equal to e for every
\* expression e; for a non-empty map, substitute changes only the name field
\* of the polynomial references whose name is a key of the map (namespace,
\* index and next flag are kept), returns every non-reference leaf unchanged
\* and keeps operators and operand order.  Read on the identity
\* instr_I * substitute(body) that the declaration of I emits.
C8_SubstituteNameOnly ==
    (status = "ingest" /\ asm_input /= <<>>) =>
        /\ self.pil[Len(self.pil)].kind = "PolynomialIdentity"
        /\ self.pil[Len(self.pil)].expr.left = direct_reference("instr_I")
        /\ OnlyNamesRewritten(LastDeclaration.body[1], LastSubstituted,
                              SubstitutionKeys(LastDeclaration), "I")
        /\ SubstitutionKeys(LastDeclaration) = {} =>
             LastSubstituted = LastDeclaration.body[1]

\* a body under a substitution with two keys: a reference that is renamed
\* keeps its namespace, its index (which names a key) and its next flag
C8_Witness ==
    /\ status = "ingest"
    /\ asm_input /= <<>>
    /\ SubstitutionKeys(LastDeclaration) = {"A", "l"}
    /\ LastDeclaration.body[1].kind = "Tuple"
    /\ LastDeclaration.body[1].items[1] =
         PolynomialReference(Some("N"), "l", Some(direct_reference("l")), TRUE)
    /\ LastSubstituted.items[1] =
         PolynomialReference(Some("N"), "instr_I_param_l",
                             Some(direct_reference("l")), TRUE)
    /\ LastSubstituted.items[2] = direct_reference("instr_I_param_l")

(***************************************************************************)
(* C9  The statements the fixup phase appends, by group.                   *)
(***************************************************************************)
\* what the step from the last statement to the finished PIL appends
FixupAppended == SubSeq(self'.pil, Len(self.pil) + 1, Len(self'.pil))

\* the group of an appended statement: "bus" for the columns and the
\* identity of the assignment register, "next" for a register-next identity,
\* "rom" for a fixed-column definition, "plookup" for the plookup identity
FixupGroup(statement) ==
    CASE statement.kind = "PolynomialCommitDeclaration" -> "bus"
      [] statement.kind = "PolynomialIdentity" ->
           IF statement.expr.left.next THEN "next" ELSE "bus"
      [] statement.kind = "PolynomialConstantDefinition" -> "rom"
      [] statement.kind = "PlookupIdentity" -> "plookup"

GroupRank(order, group) == CHOOSE i \in 1..Len(order) : order[i] = group

\* the fixup phase keeps what was emitted and appends the four groups in
\* `order`: the bus columns closed by the one bus identity, one register-next
\* identity per register that has an update, the one plookup identity, and
\* the ROM, which is `line` followed by every program constant once
FixupEmits(order) ==
    LET appended == FixupAppended
        at(group) == { k \in 1..Len(appended) : FixupGroup(appended[k]) = group }
        bus_identities ==
            { k \in at("bus") : appended[k].kind = "PolynomialIdentity" }
    IN  /\ SubSeq(self'.pil, 1, Len(self.pil)) = self.pil
        /\ \A a \in 1..Len(appended) : \A b \in a..Len(appended) :
             GroupRank(order, FixupGroup(appended[a]))
               <= GroupRank(order, FixupGroup(appended[b]))
        /\ Cardinality(bus_identities) = 1
        /\ \A k \in bus_identities :
             /\ appended[k].expr.left
                  = direct_reference(default_assignment_reg(self))
             /\ \A j \in at("bus") : j <= k
        /\ { appended[k].expr.left.name : k \in at("next") }
             = { r \in DOMAIN self.registers :
                   update_expression(self.registers[r]) /= None }
        /\ Cardinality(at("next"))
             = Cardinality({ appended[k].expr.left.name : k \in at("next") })
        /\ Cardinality(at("plookup")) = 1
        /\ at("rom") /= {}
        /\ \A k \in at("rom") :
             (appended[k].name = "line") <=> (\A j \in at("rom") : k <= j)
        /\ { appended[k].name : k \in at("rom") }
             = {"line"} \cup { self'.program_constant_names[i] :
                                 i \in 1..Len(self'.program_constant_names) }
        /\ Cardinality(at("rom"))
             = Cardinality({ appended[k].name : k \in at("rom") })

FixupStep == status = "ingest" /\ status' = "done"

\* C9 as claimed: after all input statements are ingested, the statements
\* appended to the output are, in this order, (1) the assignment-bus columns
\* and bus identity, (2) the register-next identities, (3) the plookup
\* identity, (4) the ROM; so the plookup identity precedes every fixed-column
\* definition.
C9_AsClaimed ==
    [][FixupStep => FixupEmits(<<"bus", "next", "plookup", "rom">>)]_vars

\* C9: after all input statements are ingested, the statements appended to
\* the output are, in this order, (1) the assignment-bus columns and bus
\* identity, (2) the register-next identities, (3) the ROM (the `line`
\* definition, then every program constant), (4) the plookup identity; so
\* the plookup identity follows every fixed-column definition and is the last
\* statement of the output.
C9_FixupEmissionOrder ==
    [][FixupStep => FixupEmits(<<"bus", "next", "rom", "plookup">>)]_vars

\* a finished compilation of a file with inline PIL, an instruction and a
\* program, whose fixup phase emitted register-next identities
C9_Witness ==
    /\ Done
    /\ \E i \in 1..Len(asm_input) : asm_input[i].kind = "InlinePil"
    /\ DeclaredInstructions(asm_input) /= {}
    /\ ProgramLines(asm_input) /= <<>>
    /\ Cardinality({ r \in DOMAIN self.registers :
                       update_expression(self.registers[r]) /= None }) >= 2
    /\ self.pil[Len(self.pil)].kind = "PlookupIdentity"

(***************************************************************************)
(* C10  The plookup identity and the line-lookup.                          *)
(***************************************************************************)
\* the witness names of the pairs a statement of the file inserts into the
\* line-lookup, in the order of insertion
PairsDeclaredBy(statement) ==
    CASE statement.kind = "RegisterDeclaration" ->
           IF statement.flags = Some("IsPC") THEN <<statement.name>>
           ELSE IF statement.flags = None THEN <<"reg_write_" \o statement.name>>
           ELSE <<>>
      [] statement.kind = "InstructionDeclaration" ->
           LET literal == SelectSeq(statement.params, LAMBDA q : ~IsBusParam(q))
           IN  <<"instr_" \o statement.name>>
               \o [k \in 1..Len(literal) |->
                     "instr_" \o statement.name \o "_param_" \o literal[k].name]
      [] OTHER -> <<>>

RECURSIVE PairsDeclaredIn(_)
PairsDeclaredIn(file) ==
    IF file = <<>> THEN <<>>
    ELSE PairsDeclaredBy(Head(file)) \o PairsDeclaredIn(Tail(file))

PlookupPlaces == { i \in 1..Len(self.pil) : self.pil[i].kind = "PlookupIdentity" }

\* C10: the emitted plookup identity has no selector on either side, its
\* left list is the witness names and its right list the fixed names of the
\* line-lookup, both in insertion order (the pairs of the declarations of the
\* file first, in file order) and of equal length, so that the k-th left
\* entry and the k-th right entry come from the same line-lookup pair: the
\* right entry is `line` for the pc pair and `p_` + left otherwise.
C10_PlookupAlignment ==
    Done =>
        /\ Cardinality(PlookupPlaces) = 1
        /\ \A i \in PlookupPlaces :
             LET left == self.pil[i].left.expressions
                 right == self.pil[i].right.expressions
                 declared == PairsDeclaredIn(asm_input)
             IN  /\ self.pil[i].left.selector = None
                 /\ self.pil[i].right.selector = None
                 /\ Len(left) = Len(self.line_lookup)
                 /\ Len(right) = Len(left)
                 /\ Len(declared) <= Len(left)
                 /\ \A k \in 1..Len(declared) :
                      left[k] = direct_reference(declared[k])
                 /\ \A k \in 1..Len(left) :
                      /\ left[k] = direct_reference(self.line_lookup[k][1])
                      /\ right[k] = direct_reference(self.line_lookup[k][2])
                      /\ right[k] = direct_reference(
                             IF self.pc_name = Some(left[k].name)
                               THEN "line" ELSE "p_" \o left[k].name)

\* a finished compilation whose line-lookup holds the pc pair after the pair
\* of a plain register, the pairs of an instruction with a literal parameter
\* and the pairs of the fixup phase
C10_Witness ==
    /\ Done
    /\ Len(self.line_lookup) >= 7
    /\ \E k \in 2..Len(self.line_lookup) :
         /\ self.line_lookup[k] = <<"pc", "line">>
         /\ self.line_lookup[k - 1] = <<"reg_write_A", "p_reg_write_A">>
    /\ \E k \in 1..Len(self.line_lookup) :
         self.line_lookup[k][1] = "instr_jmp_param_l"

(***************************************************************************)
(* C11  Programs with faults: an invocation with the wrong number of       *)
(* arguments, an invocation of an undeclared instruction, an assignment    *)
(* with two write registers, a label argument naming no label, a second    *)
(* register with the pc or the default-assignment flag.                    *)
(***************************************************************************)
MaxFaulty == 5

FaultyStatements ==
    { RegisterDeclaration(1, "X", Some("IsDefaultAssignment")),
      RegisterDeclaration(2, "pc", Some("IsPC")),
      RegisterDeclaration(3, "A", None),
      RegisterDeclaration(4, "Y", Some("IsDefaultAssignment")),
      RegisterDeclaration(4, "ip", Some("IsPC")),
      \* instr jmp l: label { pc' = l }
      InstructionDeclaration(5, "jmp", <<LabelParam("l")>>,
          <<build_sub(next_reference("pc"), direct_reference("l"))>>),
      \* jmp start;
      ASMInstruction(14, "jmp", <<direct_reference("start")>>),
      \* jmp start, start;
      ASMInstruction(15, "jmp", <<direct_reference("start"), direct_reference("start")>>),
      \* halt;
      ASMInstruction(16, "halt", <<>>),
      \* jmp end;
      ASMInstruction(17, "jmp", <<direct_reference("end")>>),
      \* A, pc <=X= 1;
      Assignment(12, <<"A", "pc">>, Some("X"), build_number(1)),
      \* A <=X= 1;
      Assignment(13, <<"A">>, Some("X"), build_number(1)),
      Label(19, "start") }

TakeFaulty ==
    \E s \in FaultyStatements :
        /\ status = "ingest"
        /\ Len(asm_input) < MaxFaulty
        /\ \A i \in 1..Len(asm_input) : Part(asm_input[i]) <= Part(s)
        /\ Take(s)

NextFaulty == TakeFaulty \/ Finish

SpecFaulty == Init /\ [][NextFaulty]_vars

\* the instructions declared before statement i of the file
DeclaredBefore(file, i) == DeclaredInstructions(SubSeq(file, 1, i - 1))

\* statement i invokes an instruction that no earlier statement declares
UnknownInstructionAt(file, i) ==
    /\ file[i].kind = "Instruction"
    /\ file[i].instr_name \notin DeclaredBefore(file, i)

\* statement i invokes a declared instruction with another number of
\* arguments than it has parameters
ArityFaultAt(file, i) ==
    /\ file[i].kind = "Instruction"
    /\ file[i].instr_name \in DeclaredBefore(file, i)
    /\ Len(file[i].args)
         /= Len(DeclaredParams(SubSeq(file, 1, i - 1), file[i].instr_name))

\* statement i assigns to more than one write register
MultiWriteAt(file, i) ==
    /\ file[i].kind = "Assignment"
    /\ Len(file[i].write_regs) > 1

\* statement i passes as label argument a name that no label of the file has
UnknownLabelAt(file, i) ==
    /\ file[i].kind = "Instruction"
    /\ file[i].instr_name \in DeclaredBefore(file, i)
    /\ LET params == DeclaredParams(SubSeq(file, 1, i - 1), file[i].instr_name)
       IN  /\ Len(file[i].args) = Len(params)
           /\ \E p \in 1..Len(params) :
                /\ ~IsBusParam(params[p])
                /\ LabelRows(file, file[i].args[p].name) = {}

FaultAt(file, i) ==
    \/ UnknownInstructionAt(file, i)
    \/ ArityFaultAt(file, i)
    \/ MultiWriteAt(file, i)
    \/ UnknownLabelAt(file, i)

\* C11: on an instruction invocation whose argument count differs from the
\* declared parameter count, an invocation of an undeclared instruction, an
\* assignment with more than one write register, or a label argument naming
\* a label absent from the program, compile returns an error value and never
\* aborts or panics: a compilation of a file with one of these faults is
\* never ended by a panic.
C11_ErrorsAreValues ==
    (\E i \in 1..Len(asm_input) : FaultAt(asm_input, i)) =>
        status \notin {"panic_ingest", "panic_fixup"}

(***************************************************************************)
(* C12  Unique flag registers.                                             *)
(***************************************************************************)
\* the places of the file that declare a register with the given flag
FlagDeclarations(file, flag) ==
    { i \in RegisterDeclarationsIn(file) : file[i].flags = Some(flag) }

\* the name a converter that took the file records for a flag: none without
\* a declaration, the declared name with one
RecordedFor(file, flag) ==
    IF FlagDeclarations(file, flag) = {} THEN None
    ELSE Some(file[CHOOSE i \in FlagDeclarations(file, flag) : TRUE].name)

\* C12: in every state reached while ingesting statements, at most one
\* register name is recorded as pc and at most one as default_assignment (the
\* name of the one declaration with the flag); a second declaration with the
\* pc flag or with the default_assignment flag is fatal, so compilation
\* stops there and no PIL is produced.
C12_UniqueFlagRegisters ==
    /\ status \in {"ingest", "done"} =>
         \A flag \in {"IsPC", "IsDefaultAssignment"} :
           Cardinality(FlagDeclarations(asm_input, flag)) <= 1
    /\ status \in {"ingest", "done"} =>
         /\ self.pc_name = RecordedFor(asm_input, "IsPC")
         /\ self.default_assignment = RecordedFor(asm_input, "IsDefaultAssignment")
    /\ \A flag \in {"IsPC", "IsDefaultAssignment"} :
         Cardinality(FlagDeclarations(asm_input, flag)) > 1 =>
           /\ status = "panic_ingest"
           /\ Len(asm_input) \in FlagDeclarations(asm_input, flag)
           /\ Cardinality(FlagDeclarations(asm_input, flag)) = 2

\* a compilation stopped by a second pc register of another name, declared
\* after the bus register
C12_Witness ==
    /\ status = "panic_ingest"
    /\ Len(asm_input) = 3
    /\ RegisterDeclarationsIn(asm_input) = {1, 2, 3}
    /\ asm_input[1].flags = Some("IsPC")
    /\ asm_input[2].flags = Some("IsDefaultAssignment")
    /\ asm_input[3].flags = Some("IsPC")
    /\ asm_input[3].name /= asm_input[1].name
    /\ self.pc_name = Some(asm_input[1].name)

(***************************************************************************)
(* C13  Register updates.  The files declare registers and instructions    *)
(* whose bodies write the pc, a plain register and the bus register.       *)
(***************************************************************************)
MaxUpdates == 6

UpdateStatements ==
    { RegisterDeclaration(1, "X", Some("IsDefaultAssignment")),
      RegisterDeclaration(2, "pc", Some("IsPC")),
      RegisterDeclaration(3, "A", None),
      \* instr jmp l: label { pc' = l }
      InstructionDeclaration(5, "jmp", <<LabelParam("l")>>,
          <<build_sub(next_reference("pc"), direct_reference("l"))>>),
      \* instr dec_A { A' = A - 1 }
      InstructionDeclaration(6, "dec_A", <<>>,
          <<build_sub(next_reference("A"),
                      build_sub(direct_reference("A"), build_number(1)))>>),
      \* instr load { X' = A }
      InstructionDeclaration(7, "load", <<>>,
          <<build_sub(next_reference("X"), direct_reference("A"))>>),
      \* instr both { A' = X, pc' = pc + 2 }
      InstructionDeclaration(8, "both", <<>>,
          <<build_sub(next_reference("A"), direct_reference("X")),
            build_sub(next_reference("pc"),
                      build_add(direct_reference("pc"), build_number(2)))>>) }

TakeUpdate ==
    \E s \in UpdateStatements :
        /\ status = "ingest"
        /\ Len(asm_input) < MaxUpdates
        /\ \A i \in 1..Len(asm_input) : Part(asm_input[i]) <= Part(s)
        /\ Take(s)

NextUpdates == TakeUpdate \/ Finish

SpecUpdates == Init /\ [][NextUpdates]_vars

\* the instruction flags of the bodies of a declaration that write register
\* r, one per expression r' = ..., in the order of the body
RECURSIVE BodyConditions(_, _, _)
BodyConditions(name, body, r) ==
    IF body = <<>> THEN <<>>
    ELSE (IF /\ Head(body).kind = "BinaryOperation"
             /\ Head(body).op = "Sub"
             /\ Head(body).left = next_reference(r)
            THEN <<direct_reference("instr_" \o name)>>
            ELSE <<>>)
         \o BodyConditions(name, Tail(body), r)

\* the conditions of the updates of register r: one per instruction body
\* that writes it, in the order of the declarations
RECURSIVE InstructionConditions(_, _)
InstructionConditions(file, r) ==
    IF file = <<>> THEN <<>>
    ELSE (IF Head(file).kind = "InstructionDeclaration"
            THEN BodyConditions(Head(file).name, Head(file).body, r)
            ELSE <<>>)
         \o InstructionConditions(Tail(file), r)

\* the register's own write flag first
ExpectedConditions(file, r) ==
    (IF r \in DeclaredRegisters(file, None)
       THEN <<direct_reference("reg_write_" \o r)>> ELSE <<>>)
    \o InstructionConditions(file, r)

\* the default update of a register: pc + 1 for the pc, r for a plain
\* register, none for the bus register
ExpectedDefault(file, r) ==
    IF r \in DeclaredRegisters(file, Some("IsPC"))
      THEN Some(BinaryOperation(direct_reference(r), "Add", Number(1)))
    ELSE IF r \in DeclaredRegisters(file, None) THEN Some(direct_reference(r))
    ELSE None

RECURSIVE SumLeft(_)
\* t1 + t2 + ... + tn associated to the left
SumLeft(terms) ==
    IF Len(terms) = 1 THEN terms[1]
    ELSE BinaryOperation(SumLeft(SubSeq(terms, 1, Len(terms) - 1)), "Add",
                         terms[Len(terms)])

\* (c1*v1 + ... + cn*vn) + (1 - (c1 + ... + cn)) * d
ExpectedNext(conditions, values, default) ==
    LET products == [k \in 1..Len(conditions) |->
                        BinaryOperation(conditions[k], "Mul", values[k])]
    IN  IF conditions = <<>> THEN default
        ELSE IF default = None THEN Some(SumLeft(products))
        ELSE Some(BinaryOperation(
                 SumLeft(products), "Add",
                 BinaryOperation(
                     BinaryOperation(Number(1), "Sub", SumLeft(conditions)),
                     "Mul", Unwrap(default))))

\* C13: for a register with conditioned updates (c1,v1)..(cn,vn) in the
\* order they were appended (the register's own write flag first, then one
\* per instruction body that writes it, in instruction declaration order) and
\* default d, the emitted next-row expression is
\* (c1*v1 + ... + cn*vn) + (1 - (c1 + ... + cn)) * d with both sums
\* left-associated; with n = 0 it is d alone, with no default the sum of
\* ci*vi alone, and with neither no identity is emitted for the register.
C13_RegisterUpdateExpression ==
    Done =>
      \A r \in DOMAIN self.registers :
        LET updates == self.registers[r].conditioned_updates
            conditions == ExpectedConditions(asm_input, r)
            values == [k \in 1..Len(updates) |-> updates[k][2]]
            expected == ExpectedNext(conditions, values,
                                     ExpectedDefault(asm_input, r))
            emitted == IdentitiesOf(next_reference(r))
        IN  /\ [k \in 1..Len(updates) |-> updates[k][1]] = conditions
            /\ IF expected = None THEN emitted = {}
               ELSE /\ Cardinality(emitted) = 1
                    /\ \A i \in emitted :
                         self.pil[i].expr.right = Unwrap(expected)

\* a finished compilation in which the plain register has its write flag and
\* two instruction updates, the pc has an update and its default, and the bus
\* register has an update and no default
C13_Witness ==
    /\ Done
    /\ {"A", "X", "pc"} \subseteq DOMAIN self.registers
    /\ Len(self.registers["A"].conditioned_updates) = 3
    /\ self.registers["A"].conditioned_updates[2][1] = direct_reference("instr_dec_A")
    /\ self.registers["A"].conditioned_updates[3][1] = direct_reference("instr_both")
    /\ Len(self.registers["pc"].conditioned_updates) = 1
    /\ Len(self.registers["X"].conditioned_updates) = 1
    /\ IdentitiesOf(next_reference("X")) /= {}

(***************************************************************************)
(* C14  The order of the terms of the bus identity.                        *)
(***************************************************************************)
\* the names of the non-bus registers of the file in the order of their
\* first declaration
RECURSIVE DeclarationOrder(_, _)
DeclarationOrder(file, seen) ==
    IF file = <<>> THEN <<>>
    ELSE IF /\ Head(file).kind = "RegisterDeclaration"
            /\ Head(file).flags /= Some("IsDefaultAssignment")
            /\ Head(file).name \notin seen
           THEN <<Head(file).name>>
                \o DeclarationOrder(Tail(file), seen \cup {Head(file).name})
           ELSE DeclarationOrder(Tail(file), seen)

\* the bus identity sums, associated to the left, the products
\* read_{bus}_{r} * r for r along `order`, then {bus}_const, then
\* {bus}_read_free * {bus}_free_value
BusIdentitySums(order) ==
    LET bus == Unwrap(self.default_assignment)
        terms == [k \in 1..Len(order) |->
                     BinaryOperation(direct_reference("read_" \o bus \o "_" \o order[k]),
                                     "Mul", direct_reference(order[k]))]
                 \o << direct_reference(bus \o "_const"),
                       BinaryOperation(direct_reference(bus \o "_read_free"), "Mul",
                                       direct_reference(bus \o "_free_value")) >>
    IN  /\ IdentitiesOf(direct_reference(bus)) /= {}
        /\ \A i \in IdentitiesOf(direct_reference(bus)) :
             self.pil[i].expr.right = SumLeft(terms)

\* the sequence lists the set once each, in ascending byte order
AscendingListOf(order, names) ==
    /\ { order[k] : k \in 1..Len(order) } = names
    /\ \A a \in 1..Len(order) : \A b \in (a + 1)..Len(order) :
         StrLess(order[a], order[b])

\* C14 as claimed: the register products read_{bus}_{r} * r in the bus
\* identity are summed left-associated in the declaration order of the
\* non-bus registers, followed by {bus}_const and then
\* {bus}_read_free * {bus}_free_value, for every order in which registers
\* can be declared.
C14_AsClaimed ==
    Done => BusIdentitySums(DeclarationOrder(asm_input, {}))

\* C14: the register products read_{bus}_{r} * r in the bus identity are
\* summed left-associated in the ascending byte order of the names of the
\* non-bus registers, followed by {bus}_const and then
\* {bus}_read_free * {bus}_free_value, for every order in which registers
\* can be declared.
C14_BusIdentityTermOrder ==
    Done =>
      \E order \in [1..Cardinality(DOMAIN self.registers) - 1 -> DOMAIN self.registers] :
        /\ AscendingListOf(order, { asm_input[i].name :
                                      i \in RegisterDeclarationsIn(asm_input) }
                                  \ {Unwrap(self.default_assignment)})
        /\ BusIdentitySums(order)

\* a finished compilation of a file that declares pc before A: the order of
\* declaration is not the order of the names
C14_Witness ==
    /\ Done
    /\ DeclarationOrder(asm_input, {}) = <<"pc", "A">>

(***************************************************************************)
(* C15  extract_update on the bodies of instruction declarations.  The     *)
(* files declare the bus register X and the plain register A, then an      *)
(* instruction I whose body is one expression.                             *)
(***************************************************************************)
MaxExtract == 3

ExtractLefts ==
    { next_reference("A"),
      direct_reference("A"),
      PolynomialReference(Some("N"), "A", None, TRUE),
      PolynomialReference(None, "A", Some(build_number(1)), TRUE),
      build_number(1) }

ExtractBodies ==
    { build_sub(left, right) :
        left \in ExtractLefts,
        right \in { build_number(1), direct_reference("A"), next_reference("A") } }
    \cup { build_add(next_reference("A"), build_number(1)),
           build_mul(next_reference("A"), direct_reference("A")),
           build_unary_expr("Minus", next_reference("A")),
           next_reference("A"),
           build_sub(build_sub(next_reference("A"), build_number(1)),
                     build_number(1)) }

ExtractStatements ==
    { RegisterDeclaration(1, "X", Some("IsDefaultAssignment")),
      RegisterDeclaration(3, "A", None) }
    \cup { InstructionDeclaration(5, "I", <<>>, <<body>>) : body \in ExtractBodies }

TakeExtract ==
    \E s \in ExtractStatements :
        /\ status = "ingest"
        /\ Len(asm_input) < MaxExtract
        /\ \A i \in 1..Len(asm_input) : Part(asm_input[i]) <= Part(s)
        /\ Take(s)

NextExtract == TakeExtract

SpecExtract == Init /\ [][NextExtract]_vars

\* expr is left - right with left a polynomial reference with next = true,
\* no namespace and no index
IsUpdate(expr) ==
    /\ expr.kind = "BinaryOperation"
    /\ expr.op = "Sub"
    /\ expr.left.kind = "PolynomialReference"
    /\ expr.left.next
    /\ expr.left.namespace = None
    /\ expr.left.index = None

IsQualifiedUpdate(expr) ==
    /\ expr.kind = "BinaryOperation"
    /\ expr.op = "Sub"
    /\ expr.left.kind = "PolynomialReference"
    /\ expr.left.next
    /\ (expr.left.namespace /= None \/ expr.left.index /= None)

MaxRom == 5

RomStatements ==
    { RegisterDeclaration(1, "X", Some("IsDefaultAssignment")),
      RegisterDeclaration(3, "A", None),
      \* instr assert_zero <=X= a { XIsZero = 1 }
      InstructionDeclaration(8, "assert_zero", <<BusParam("a")>>,
          <<build_sub(direct_reference("XIsZero"), build_number(1))>>),
      \* A <=X= A - ${ };
      Assignment(11, <<"A">>, Some("X"),
                 build_sub(direct_reference("A"), FreeInput(Tuple(<<>>)))),
      \* A <=X= 5 - A;
      Assignment(12, <<"A">>, Some("X"),
                 build_sub(build_number(5), direct_reference("A"))),
      \* A <=X= A + A;
      Assignment(13, <<"A">>, Some("X"),
                 build_add(direct_reference("A"), direct_reference("A"))),
      \* A <=X= 1 + 2;
      Assignment(14, <<"A">>, Some("X"),
                 build_add(build_number(1), build_number(2))),
      \* assert_zero A;
      ASMInstruction(18, "assert_zero", <<direct_reference("A")>>),
      Label(19, "start") }

TakeRom ==
    \E s \in RomStatements :
        /\ status = "ingest"
        /\ Len(asm_input) < MaxRom
        /\ \A i \in 1..Len(asm_input) : Part(asm_input[i]) <= Part(s)
        /\ Take(s)

NextRom == TakeRom \/ Finish

SpecRom == Init /\ [][NextRom]_vars

\* the places of the terms of a code line's value over a component
RegisterTerms(line, r) ==
    { k \in 1..Len(line.value) :
        line.value[k][2].kind = "Register" /\ line.value[k][2].reg = r }

ConstantTerms(line) ==
    { k \in 1..Len(line.value) : line.value[k][2].kind = "Constant" }

FreeInputTerms(line) ==
    { k \in 1..Len(line.value) : line.value[k][2].kind = "FreeInput" }

\* the cell holds the coefficient of the one term at `terms`, or zero when
\* there is none
HoldsCoefficient(cell, line, terms) ==
    /\ terms = {} => cell = 0
    /\ \A k \in terms : Cardinality(terms) = 1 => cell = line.value[k][1]

\* the names of all declared registers and the program constants of the file
AllRegisters(file) == { file[i].name : i \in RegisterDeclarationsIn(file) }

\* C16: each program constant is a vector of length |code_lines| that is
\* zero everywhere except where a line sets it: p_reg_write_{r}[i] = 1 iff
\* line i writes r, p_instr_{I}[i] = 1 iff line i invokes I,
\* p_read_{bus}_{r}[i] and p_{bus}_const[i] hold the coefficient of the
\* line's Register(r) and Constant term, and p_{bus}_read_free[i] = 1 iff the
\* line's value has a free-input term whatever its coefficient; every row of
\* a bare label line is zero in all program constants.
C16_RomCellContents ==
    Done =>
      LET bus == Unwrap(self.default_assignment)
          lines == ProgramLines(asm_input)
      IN  /\ Len(self.code_lines) = Len(lines)
          /\ \A k \in 1..Len(self.program_constant_names) :
               /\ FixedDefinitions(self.program_constant_names[k]) /= {}
               /\ \A d \in FixedDefinitions(self.program_constant_names[k]) :
                    /\ self.pil[d].definition.kind = "Array"
                    /\ Len(self.pil[d].definition.values) = Len(lines)
          /\ \A i \in Rows :
               LET statement == lines[i + 1]
                   line == self.code_lines[i + 1]
               IN  /\ \A r \in DeclaredRegisters(asm_input, None) :
                         /\ Cell("p_reg_write_" \o r, i) \in {0, 1}
                         /\ Cell("p_reg_write_" \o r, i) = 1 <=>
                              /\ statement.kind = "Assignment"
                              /\ statement.write_regs /= <<>>
                              /\ statement.write_regs[1] = r
                   /\ \A I \in DeclaredInstructions(asm_input) :
                         /\ Cell("p_instr_" \o I, i) \in {0, 1}
                         /\ Cell("p_instr_" \o I, i) = 1 <=>
                              /\ statement.kind = "Instruction"
                              /\ statement.instr_name = I
                   /\ \A r \in AllRegisters(asm_input) \ {bus} :
                         HoldsCoefficient(Cell("p_read_" \o bus \o "_" \o r, i),
                                          line, RegisterTerms(line, r))
                   /\ HoldsCoefficient(Cell("p_" \o bus \o "_const", i),
                                       line, ConstantTerms(line))
                   /\ Cell("p_" \o bus \o "_read_free", i)
                        = IF FreeInputTerms(line) /= {} THEN 1 ELSE 0
                   /\ statement.kind = "Label" =>
                        \A k \in 1..Len(self.program_constant_names) :
                          Cell(self.program_constant_names[k], i) = 0

\* a finished compilation whose program has a label line, an assignment that
\* writes A from A minus a free input and an assignment from 5 - A
C16_Witness ==
    /\ Done
    /\ \E g \in Rows : Cell("p_X_const", g) = 5 /\ Cell("p_read_X_A", g) = -1
    /\ \E i, j \in Rows :
         /\ ProgramLines(asm_input)[i + 1].kind = "Label"
         /\ ProgramLines(asm_input)[j + 1].kind = "Assignment"
         /\ Cell("p_reg_write_A", j) = 1
         /\ Cell("p_X_read_free", j) = 1
         /\ \E k \in FreeInputTerms(self.code_lines[j + 1]) :
              self.code_lines[j + 1].value[k][1] = -1
(***************************************************************************)
(* C17  The shape of the reduced list, read off the right-hand side from   *)
(* the top: the leaves from left to right, each with the sign that the     *)
(* operators above it give it.                                             *)
(***************************************************************************)
LeafValue(leaf) == IF leaf.kind = "Number" THEN leaf.value ELSE 1

LeafComponent(leaf) ==
    CASE leaf.kind = "Number" -> ComponentConstant
      [] leaf.kind = "PolynomialReference" -> ComponentRegister(leaf.name)
      [] leaf.kind = "FreeInput" -> ComponentFreeInput(leaf.exp)

RECURSIVE SignedLeaves(_, _)
\* the leaves of e from left to right, each with sign, which is flipped under
\* a unary minus and in the right operand of a binary minus
SignedLeaves(e, sign) ==
    CASE e.kind = "BinaryOperation" ->
           SignedLeaves(e.left, sign)
           \o SignedLeaves(e.right, IF e.op = "Sub" THEN -sign ELSE sign)
      [] e.kind = "UnaryOperation" -> SignedLeaves(e.exp, -sign)
      [] OTHER -> << <<sign, e>> >>

\* C17: the list of an accepted assignment has exactly one term per leaf of
\* its right-hand side, in left-to-right source order; the coefficient of a
\* leaf is its value (1 for a reference or a free input, n for the number n)
\* negated once for each enclosing unary minus or right operand of a binary
\* minus; terms over the same register are neither combined nor dropped.
C17_ReducerShape ==
    \A j \in 1..Len(self.code_lines) :
        LET leaves == SignedLeaves(asm_input[j].value, 1)
            value == self.code_lines[j].value
        IN  /\ Len(value) = Len(leaves)
            /\ \A k \in 1..Len(leaves) :
                 /\ value[k][1] = leaves[k][1] * LeafValue(leaves[k][2])
                 /\ value[k][2] = LeafComponent(leaves[k][2])

\* an accepted A - (A - 2): two terms over A that stay apart and a number
\* whose sign is flipped twice
C17_Witness ==
    /\ status = "ingest"
    /\ \E j \in 1..Len(self.code_lines) :
         /\ asm_input[j].value
              = build_sub(direct_reference("A"),
                          build_sub(direct_reference("A"), build_number(2)))
         /\ self.code_lines[j].value
              = << <<1, ComponentRegister("A")>>,
                   <<-1, ComponentRegister("A")>>,
                   <<2, ComponentConstant>> >>

(***************************************************************************)
(* The expression visitor of the parsed AST.  A visitable tree is a        *)
(* function from places to nodes: the place of the root is <<>> and the    *)
(* place of the i-th child of the node at p is p \o <<i>>.  The children   *)
(* of a node are the visitable fields of its type in the order of their    *)
(* declaration: left, right; scrutinee, arms; pattern, value; selector     *)
(* (when there is one), expressions.                                       *)
(***************************************************************************)
ExpressionKinds ==
    { "Reference", "Constant", "PublicReference", "Number", "String",
      "BinaryOperation", "FreeInput", "UnaryOperation", "LambdaExpression",
      "ArrayLiteral", "FunctionCall", "Tuple", "MatchExpression" }

VisitOrder == {"Pre", "Post"}

\* the tree of `node` over the trees `children`
Rooted(node, children) ==
    [p \in {<<>>} \cup UNION { { <<i>> \o q : q \in DOMAIN children[i] } :
                                i \in 1..Len(children) } |->
        IF p = <<>> THEN node ELSE children[Head(p)][Tail(p)]]

AstReference(name) == Rooted([kind |-> "Reference", name |-> name], <<>>)

AstConstant(name) == Rooted([kind |-> "Constant", name |-> name], <<>>)

AstPublicReference(name) ==
    Rooted([kind |-> "PublicReference", name |-> name], <<>>)

AstNumber(v) == Rooted([kind |-> "Number", value |-> v], <<>>)

AstString(s) == Rooted([kind |-> "String", string |-> s], <<>>)

AstBinaryOperation(left, op, right) ==
    Rooted([kind |-> "BinaryOperation", op |-> op], <<left, right>>)

AstFreeInput(e) == Rooted([kind |-> "FreeInput"], <<e>>)

AstUnaryOperation(op, e) ==
    Rooted([kind |-> "UnaryOperation", op |-> op], <<e>>)

AstLambdaExpression(params, body) ==
    Rooted([kind |-> "LambdaExpression", params |-> params], <<body>>)

AstArrayLiteral(items) ==
    Rooted([kind |-> "ArrayLiteral", len |-> Len(items)], items)

AstFunctionCall(id, arguments) ==
    Rooted([kind |-> "FunctionCall", id |-> id, len |-> Len(arguments)],
           arguments)

AstTuple(items) == Rooted([kind |-> "Tuple", len |-> Len(items)], items)

AstMatchExpression(scrutinee, arms) ==
    Rooted([kind |-> "MatchExpression", len |-> Len(arms)],
           <<scrutinee>> \o arms)

AstMatchArm(pattern, value) == Rooted([kind |-> "MatchArm"], <<pattern, value>>)

MatchPattern_CatchAll == Rooted([kind |-> "CatchAll"], <<>>)

MatchPattern_Pattern(e) == Rooted([kind |-> "Pattern"], <<e>>)

\* selector is an Option
AstSelectedExpressions(selector, expressions) ==
    Rooted([kind |-> "SelectedExpressions", selector |-> selector /= None,
            len |-> Len(expressions)],
           selector \o expressions)

\* the places of the children numbered from..to of the node at p
Children(p, from, to) == [i \in 1..(to - from + 1) |-> p \o <<from + i - 1>>]

\* ControlFlow<B>
Continue == [kind |-> "Continue"]

Break(b) == [kind |-> "Break", b |-> b]

\* a traversal in progress: the tree, the calls of the callback so far (the
\* place and the node it was given) and the ControlFlow of the last step
Traversing(tree) == [tree |-> tree, calls |-> <<>>, flow |-> Continue]

\* what the callback of a mutable traversal leaves in place of the node
Mutated(f, node) ==
    CASE f.mutation = "keep" -> node
      [] f.mutation = "relabel" ->
           IF node.kind = "Number"
             THEN [node EXCEPT !.value = (@ + 1) % 3]
             ELSE node
      [] f.mutation = "collapse" ->
           IF node.kind \in {"BinaryOperation", "Tuple", "MatchExpression"}
             THEN [kind |-> "Number", value |-> 0]
             ELSE node

\* f(e) for e the node at p: the callback is a closure that breaks with f.b
\* at its call number f.breaks_at (never when that is 0)
call(f, p, st) ==
    [st EXCEPT !.calls = Append(@, <<p, st.tree[p]>>),
               !.flow = IF Len(st.calls) + 1 = f.breaks_at
                          THEN Break(f.b) ELSE Continue]

\* tree with node written to the place p: what was below a node that has no
\* children any more is dropped with it
Assigned(tree, p, node) ==
    IF node.kind \in {"Reference", "Constant", "PublicReference", "Number",
                      "String"}
      THEN [q \in { q \in DOMAIN tree :
                      ~(Len(p) < Len(q) /\ SubSeq(q, 1, Len(p)) = p) } |->
               IF q = p THEN node ELSE tree[q]]
      ELSE [tree EXCEPT ![p] = node]

\* f(e) for e the node at p, borrowed mutably
call_mut(f, p, st) ==
    [call(f, p, st) EXCEPT !.tree = Assigned(@, p, Mutated(f, @[p]))]

RECURSIVE visit_expressions(_, _, _, _)
RECURSIVE try_for_each(_, _, _, _)
RECURSIVE visit_expressions_mut(_, _, _, _)
RECURSIVE try_for_each_mut(_, _, _, _)

\* iter().try_for_each(|item| item.visit_expressions(f, o))
try_for_each(items, f, o, st) ==
    IF items = <<>>
      THEN st
      ELSE LET item == visit_expressions(Head(items), f, o, st)
           IN  IF item.flow /= Continue
                 THEN item
                 ELSE try_for_each(Tail(items), f, o, item)

LambdaExpression_visit_expressions(p, f, o, st) ==
    visit_expressions(p \o <<1>>, f, o, st)

ArrayLiteral_visit_expressions(p, f, o, st) ==
    try_for_each(Children(p, 1, st.tree[p].len), f, o, st)

FunctionCall_visit_expressions(p, f, o, st) ==
    try_for_each(Children(p, 1, st.tree[p].len), f, o, st)

\* the mutant of MatchArm's visit_expressions that takes the value before the
\* pattern
MatchArm_visit_expressions_value_first(p, f, o, st) ==
    LET value == visit_expressions(p \o <<2>>, f, o, st)
    IN  IF value.flow /= Continue
          THEN value
          ELSE visit_expressions(p \o <<1>>, f, o, value)

MatchArm_visit_expressions(p, f, o, st) ==
    LET pattern == visit_expressions(p \o <<1>>, f, o, st)
    IN  IF pattern.flow /= Continue
          THEN pattern
          ELSE visit_expressions(p \o <<2>>, f, o, pattern)

MatchPattern_visit_expressions(p, f, o, st) ==
    IF st.tree[p].kind = "CatchAll"
      THEN st
      ELSE visit_expressions(p \o <<1>>, f, o, st)

SelectedExpressions_visit_expressions(p, f, o, st) ==
    try_for_each(
        Children(p, 1, (IF st.tree[p].selector THEN 1 ELSE 0) + st.tree[p].len),
        f, o, st)

Expression_visit_expressions(p, f, o, st) ==
    LET pre == IF o = "Pre" THEN call(f, p, st) ELSE st
        self_ == pre.tree[p]
        inner ==
            CASE self_.kind \in {"Reference", "Constant", "PublicReference",
                                 "Number", "String"} -> pre
              [] self_.kind = "BinaryOperation" ->
                   LET left == visit_expressions(p \o <<1>>, f, o, pre)
                   IN  IF left.flow /= Continue
                         THEN left
                         ELSE visit_expressions(p \o <<2>>, f, o, left)
              [] self_.kind \in {"FreeInput", "UnaryOperation"} ->
                   visit_expressions(p \o <<1>>, f, o, pre)
              [] self_.kind = "LambdaExpression" ->
                   LambdaExpression_visit_expressions(p, f, o, pre)
              [] self_.kind = "ArrayLiteral" ->
                   ArrayLiteral_visit_expressions(p, f, o, pre)
              [] self_.kind = "FunctionCall" ->
                   FunctionCall_visit_expressions(p, f, o, pre)
              [] self_.kind = "Tuple" ->
                   try_for_each(Children(p, 1, self_.len), f, o, pre)
              [] self_.kind = "MatchExpression" ->
                   LET scrutinee == visit_expressions(p \o <<1>>, f, o, pre)
                   IN  IF scrutinee.flow /= Continue
                         THEN scrutinee
                         ELSE try_for_each(Children(p, 2, self_.len + 1),
                                           f, o, scrutinee)
    IN  IF pre.flow /= Continue
          THEN pre
          ELSE IF inner.flow /= Continue
                 THEN inner
                 ELSE IF o = "Post" THEN call(f, p, inner) ELSE inner

\* the implementation of the trait for the type of the node at p
visit_expressions(p, f, o, st) ==
    CASE st.tree[p].kind \in ExpressionKinds ->
           Expression_visit_expressions(p, f, o, st)
      [] st.tree[p].kind = "SelectedExpressions" ->
           SelectedExpressions_visit_expressions(p, f, o, st)
      [] st.tree[p].kind = "MatchArm" ->
           MatchArm_visit_expressions(p, f, o, st)
      [] st.tree[p].kind \in {"CatchAll", "Pattern"} ->
           MatchPattern_visit_expressions(p, f, o, st)

\* iter_mut().try_for_each(|item| item.visit_expressions_mut(f, o))
try_for_each_mut(items, f, o, st) ==
    IF items = <<>>
      THEN st
      ELSE LET item == visit_expressions_mut(Head(items), f, o, st)
           IN  IF item.flow /= Continue
                 THEN item
                 ELSE try_for_each_mut(Tail(items), f, o, item)

LambdaExpression_visit_expressions_mut(p, f, o, st) ==
    visit_expressions_mut(p \o <<1>>, f, o, st)

ArrayLiteral_visit_expressions_mut(p, f, o, st) ==
    try_for_each_mut(Children(p, 1, st.tree[p].len), f, o, st)

FunctionCall_visit_expressions_mut(p, f, o, st) ==
    try_for_each_mut(Children(p, 1, st.tree[p].len), f, o, st)

MatchArm_visit_expressions_mut(p, f, o, st) ==
    LET pattern == visit_expressions_mut(p \o <<1>>, f, o, st)
    IN  IF pattern.flow /= Continue
          THEN pattern
          ELSE visit_expressions_mut(p \o <<2>>, f, o, pattern)

MatchPattern_visit_expressions_mut(p, f, o, st) ==
    IF st.tree[p].kind = "CatchAll"
      THEN st
      ELSE visit_expressions_mut(p \o <<1>>, f, o, st)

SelectedExpressions_visit_expressions_mut(p, f, o, st) ==
    try_for_each_mut(
        Children(p, 1, (IF st.tree[p].selector THEN 1 ELSE 0) + st.tree[p].len),
        f, o, st)

\* the match is on the node as the callback left it
Expression_visit_expressions_mut(p, f, o, st) ==
    LET pre == IF o = "Pre" THEN call_mut(f, p, st) ELSE st
        self_ == pre.tree[p]
        inner ==
            CASE self_.kind \in {"Reference", "Constant", "PublicReference",
                                 "Number", "String"} -> pre
              [] self_.kind = "BinaryOperation" ->
                   LET left == visit_expressions_mut(p \o <<1>>, f, o, pre)
                   IN  IF left.flow /= Continue
                         THEN left
                         ELSE visit_expressions_mut(p \o <<2>>, f, o, left)
              [] self_.kind \in {"FreeInput", "UnaryOperation"} ->
                   visit_expressions_mut(p \o <<1>>, f, o, pre)
              [] self_.kind = "LambdaExpression" ->
                   LambdaExpression_visit_expressions_mut(p, f, o, pre)
              [] self_.kind = "ArrayLiteral" ->
                   ArrayLiteral_visit_expressions_mut(p, f, o, pre)
              [] self_.kind = "FunctionCall" ->
                   FunctionCall_visit_expressions_mut(p, f, o, pre)
              [] self_.kind = "Tuple" ->
                   try_for_each_mut(Children(p, 1, self_.len), f, o, pre)
              [] self_.kind = "MatchExpression" ->
                   LET scrutinee == visit_expressions_mut(p \o <<1>>, f, o, pre)
                   IN  IF scrutinee.flow /= Continue
                         THEN scrutinee
                         ELSE try_for_each_mut(Children(p, 2, self_.len + 1),
                                               f, o, scrutinee)
    IN  IF pre.flow /= Continue
          THEN pre
          ELSE IF inner.flow /= Continue
                 THEN inner
                 ELSE IF o = "Post" THEN call_mut(f, p, inner) ELSE inner

visit_expressions_mut(p, f, o, st) ==
    CASE st.tree[p].kind \in ExpressionKinds ->
           Expression_visit_expressions_mut(p, f, o, st)
      [] st.tree[p].kind = "SelectedExpressions" ->
           SelectedExpressions_visit_expressions_mut(p, f, o, st)
      [] st.tree[p].kind = "MatchArm" ->
           MatchArm_visit_expressions_mut(p, f, o, st)
      [] st.tree[p].kind \in {"CatchAll", "Pattern"} ->
           MatchPattern_visit_expressions_mut(p, f, o, st)

(***************************************************************************)
(* The callers of the visitor: a caller holds a visitable tree and calls   *)
(* visit_expressions or visit_expressions_mut on its root, again and again *)
(* on the tree the previous call left.                                     *)
(***************************************************************************)
\* number of traversals of one tree
MaxVisits == 2

VisitedTrees ==
    { AstBinaryOperation(
          AstBinaryOperation(AstReference("a"), "Add", AstNumber(1)),
          "Sub",
          AstUnaryOperation("Minus", AstFreeInput(AstString("x")))),
      AstMatchExpression(
          AstReference("x"),
          << AstMatchArm(MatchPattern_Pattern(AstNumber(1)),
                      AstTuple(<<AstNumber(2), AstConstant("c")>>)),
             AstMatchArm(MatchPattern_CatchAll,
                      AstLambdaExpression(<<"y">>, AstReference("y"))) >>),
      AstSelectedExpressions(
          Some(AstReference("sel")),
          << AstFunctionCall("f",
                 << AstNumber(1),
                    AstArrayLiteral(<<AstNumber(2), AstPublicReference("p")>>) >>),
             AstNumber(0) >>),
      AstSelectedExpressions(None, <<AstNumber(1), AstNumber(2)>>),
      AstTuple(<<>>),
      AstNumber(0) }

\* the tree the next traversal is called on
Visitable ==
    IF traversal.visits = 0 THEN VisitedTrees ELSE {traversal.result.tree}

\* the callbacks of an immutable traversal of tree
Callbacks(tree) ==
    [breaks_at : 0..Cardinality(DOMAIN tree), b : {"found"},
     mutation : {"keep"}]

\* the callbacks of a mutable traversal of tree
CallbacksMut(tree) ==
    [breaks_at : 0..Cardinality(DOMAIN tree), b : {"found"},
     mutation : {"keep", "relabel", "collapse"}]

Visit ==
    \E tree \in Visitable : \E f \in Callbacks(tree) : \E o \in VisitOrder :
        /\ traversal.visits < MaxVisits
        /\ traversal' =
             [visits |-> traversal.visits + 1, method |-> "visit_expressions",
              tree |-> tree, f |-> f, o |-> o,
              result |-> visit_expressions(<<>>, f, o, Traversing(tree))]
        /\ UNCHANGED <<asm_input, random_state, self, status>>

VisitMut ==
    \E tree \in Visitable : \E f \in CallbacksMut(tree) : \E o \in VisitOrder :
        /\ traversal.visits < MaxVisits
        /\ traversal' =
             [visits |-> traversal.visits + 1,
              method |-> "visit_expressions_mut",
              tree |-> tree, f |-> f, o |-> o,
              result |-> visit_expressions_mut(<<>>, f, o, Traversing(tree))]
        /\ UNCHANGED <<asm_input, random_state, self, status>>

NextVisitor == Visit \/ VisitMut

SpecVisitor == Init /\ [][NextVisitor]_vars

(***************************************************************************)
(* C18  The order of a traversal, told from the places alone: a place is   *)
(* an ancestor of the places it is a proper prefix of, and of two places   *)
(* that part ways the one with the smaller child number is to the left.    *)
(***************************************************************************)
IsAncestor(p, q) == Len(p) < Len(q) /\ SubSeq(q, 1, Len(p)) = p

IsLeftOf(p, q) ==
    \E i \in 1..Len(p) :
        /\ i <= Len(q)
        /\ SubSeq(p, 1, i - 1) = SubSeq(q, 1, i - 1)
        /\ p[i] < q[i]

\* p comes before q in the order o
Before(o, p, q) ==
    \/ IsLeftOf(p, q)
    \/ IF o = "Pre" THEN IsAncestor(p, q) ELSE IsAncestor(q, p)

ExpressionPlaces(tree) ==
    { p \in DOMAIN tree : tree[p].kind \in ExpressionKinds }

\* the expression nodes of tree in the order o
InOrder(tree, o) ==
    [k \in 1..Cardinality(ExpressionPlaces(tree)) |->
        CHOOSE p \in ExpressionPlaces(tree) :
            Cardinality({ q \in ExpressionPlaces(tree) : Before(o, q, p) })
                = k - 1]

Breaks(f, tree) == f.breaks_at \in 1..Cardinality(ExpressionPlaces(tree))

PlacesOf(calls) == [k \in 1..Len(calls) |-> calls[k][1]]

\* C18: visit_expressions calls the callback exactly once on every
\* expression node unless the callback breaks; with Pre a node comes before
\* all of its descendants and with Post after all of them, and children are
\* taken left to right (selector before expressions, scrutinee before arms,
\* pattern before value); when the callback returns Break(b) no further node
\* is visited and Break(b) is the result; visit_expressions_mut visits the
\* same nodes in the same order when its callback keeps the shape of the
\* tree.
C18_TraversalOrder ==
    traversal.visits > 0 =>
        LET tree == traversal.tree
            f == traversal.f
            o == traversal.o
            expected == InOrder(tree, o)
            immutable == visit_expressions(<<>>, f, o, Traversing(tree))
            calls == traversal.result.calls
        IN  /\ traversal.method = "visit_expressions" =>
                /\ Len(calls)
                     = IF Breaks(f, tree) THEN f.breaks_at ELSE Len(expected)
                /\ \A k \in 1..Len(calls) :
                     calls[k] = <<expected[k], tree[expected[k]]>>
                /\ \A p \in ExpressionPlaces(tree) :
                     Cardinality({ k \in 1..Len(calls) : calls[k][1] = p })
                         = IF Breaks(f, tree) /\ \A k \in 1..Len(calls) :
                                                     expected[k] /= p
                             THEN 0 ELSE 1
                /\ traversal.result.flow
                     = IF Breaks(f, tree) THEN Break(f.b) ELSE Continue
                /\ traversal.result.tree = tree
            /\ (traversal.method = "visit_expressions_mut"
                  /\ f.mutation /= "collapse") =>
                /\ PlacesOf(calls) = PlacesOf(immutable.calls)
                /\ traversal.result.flow = immutable.flow

\* a traversal in pre-order of the match expression, whose numbers a mutable
\* traversal has relabelled before, that the callback breaks at the lambda
\* of the second arm
C18_Witness ==
    /\ traversal.visits = 2
    /\ traversal.method = "visit_expressions"
    /\ traversal.o = "Pre"
    /\ traversal.tree[<<>>].kind = "MatchExpression"
    /\ traversal.tree[<<2, 1, 1>>] = [kind |-> "Number", value |-> 2]
    /\ traversal.result.flow = Break("found")
    /\ Len(traversal.result.calls) = 7
    /\ traversal.result.calls[7][1] = <<3, 2>>
(***************************************************************************)
(* C19  The place of the default-assignment register among the register    *)
(* declarations.                                                           *)
(***************************************************************************)
\* the declarations of file with the flag `flags`
DeclarationsFlagged(file, flags) ==
    { i \in RegisterDeclarationsIn(file) : file[i].flags = flags }

\* C19: compile produces a PIL only if a default_assignment register is
\* declared and its declaration precedes every plain register declaration; a
\* plain register declared before the default_assignment register aborts the
\* compilation at that declaration, and the end of a file with no
\* default_assignment register, even an empty one, aborts it in the fixup; a
\* pc register declared before the default_assignment register does not
\* abort it.
C19_BusRegisterFirst ==
    LET bus == DeclarationsFlagged(asm_input, Some("IsDefaultAssignment"))
        plain == DeclarationsFlagged(asm_input, None)
        pc == DeclarationsFlagged(asm_input, Some("IsPC"))
    IN  /\ Done =>
            /\ bus /= {}
            /\ \A j \in plain : \E i \in bus : i < j
        /\ \A j \in plain :
             (\A i \in bus : j < i) =>
                 status = "panic_ingest" /\ Len(asm_input) = j
        /\ (bus = {} /\ status /= "ingest") =>
               status \in {"panic_ingest", "panic_fixup"}
        /\ (asm_input = <<>> /\ status /= "ingest") => status = "panic_fixup"
        /\ \A j \in pc :
             (bus = {} /\ pc = {j} /\ plain = {} /\ Len(asm_input) = j) =>
                 status \in {"ingest", "panic_fixup"}

\* a finished compilation of a file that declares the pc, then the
\* default-assignment register, then a plain register
C19_Witness ==
    /\ Done
    /\ Len(asm_input) >= 3
    /\ asm_input[1].kind = "RegisterDeclaration"
    /\ asm_input[1].flags = Some("IsPC")
    /\ asm_input[2].kind = "RegisterDeclaration"
    /\ asm_input[2].flags = Some("IsDefaultAssignment")
    /\ asm_input[3].kind = "RegisterDeclaration"
    /\ asm_input[3].flags = None
(***************************************************************************)
(* C20  Lines whose value has several terms over one component.            *)
(***************************************************************************)
\* the last of the places `terms`
LastTerm(terms) == CHOOSE k \in terms : \A l \in terms : l <= k

RECURSIVE SumOfTerms(_, _)
\* the sum of the coefficients at `terms`
SumOfTerms(line, terms) ==
    IF terms = {} THEN 0
    ELSE line.value[LastTerm(terms)][1]
         + SumOfTerms(line, terms \ {LastTerm(terms)})

\* C20: when the reduced value of a code line has several terms over the
\* same register, or several constants, the cell of that component in the
\* line's row holds the coefficient of the last such term in source order,
\* not the sum of the coefficients.
C20_DuplicateTermsCollapse ==
    Done =>
      LET bus == Unwrap(self.default_assignment)
      IN  \A i \in Rows :
            LET line == self.code_lines[i + 1]
            IN  /\ \A r \in AllRegisters(asm_input) \ {bus} :
                     RegisterTerms(line, r) /= {} =>
                        Cell("p_read_" \o bus \o "_" \o r, i)
                          = line.value[LastTerm(RegisterTerms(line, r))][1]
                /\ ConstantTerms(line) /= {} =>
                     Cell("p_" \o bus \o "_const", i)
                       = line.value[LastTerm(ConstantTerms(line))][1]

\* a finished compilation with the lines A <=X= A + A and A <=X= 1 + 2: the
\* first stores 1 for A where the terms sum to 2, the second stores 2 for the
\* constant where the terms sum to 3
C20_Witness ==
    /\ Done
    /\ \E i, j \in Rows :
         LET a == self.code_lines[i + 1]
             n == self.code_lines[j + 1]
         IN  /\ Cardinality(RegisterTerms(a, "A")) = 2
             /\ Cell("p_read_X_A", i) = 1
             /\ SumOfTerms(a, RegisterTerms(a, "A")) = 2
             /\ Cardinality(ConstantTerms(n)) = 2
             /\ Cell("p_X_const", j) = 2
             /\ SumOfTerms(n, ConstantTerms(n)) = 3
(***************************************************************************)
(* C21  Programs whose assignments and invocations name registers that     *)
(* are not plain registers: the pc, the default-assignment register, a     *)
(* name no declaration carries.                                            *)
(***************************************************************************)
MaxNames == 4

NameStatements ==
    { RegisterDeclaration(1, "X", Some("IsDefaultAssignment")),
      RegisterDeclaration(1, "reg_write", Some("IsDefaultAssignment")),
      RegisterDeclaration(2, "pc", Some("IsPC")),
      RegisterDeclaration(3, "A", None),
      \* instr jmp l: label { pc' = l }
      InstructionDeclaration(5, "jmp", <<LabelParam("l")>>,
          <<build_sub(next_reference("pc"), direct_reference("l"))>>),
      \* instr assert_zero <=X= a { XIsZero = 1 }
      InstructionDeclaration(8, "assert_zero", <<BusParam("a")>>,
          <<build_sub(direct_reference("XIsZero"), build_number(1))>>),
      \* A <=X= A - pc;
      Assignment(11, <<"A">>, Some("X"),
          build_sub(direct_reference("A"), direct_reference("pc"))),
      \* pc <=X= 1;
      Assignment(12, <<"pc">>, Some("X"), build_number(1)),
      \* X <=X= 1;
      Assignment(13, <<"X">>, Some("X"), build_number(1)),
      \* B <=X= 1;
      Assignment(14, <<"B">>, Some("X"), build_number(1)),
      \* A <=X= X;
      Assignment(15, <<"A">>, Some("X"), direct_reference("X")),
      \* A <=X= B;
      Assignment(16, <<"A">>, Some("X"), direct_reference("B")),
      \* read_free <=X= 1;
      Assignment(17, <<"read_free">>, Some("X"), build_number(1)),
      \* assert_zero B;
      ASMInstruction(18, "assert_zero", <<direct_reference("B")>>),
      \* jmp end;
      ASMInstruction(19, "jmp", <<direct_reference("end")>>),
      Label(20, "end") }

TakeName ==
    \E s \in NameStatements :
        /\ status = "ingest"
        /\ Len(asm_input) < MaxNames
        /\ \A i \in 1..Len(asm_input) : Part(asm_input[i]) <= Part(s)
        /\ Take(s)

NextNames == TakeName \/ Finish

SpecNames == Init /\ [][NextNames]_vars

\* the default-assignment registers, the plain registers and the labels of
\* the file
BusRegisters == DeclaredRegisters(asm_input, Some("IsDefaultAssignment"))

PlainRegisters == DeclaredRegisters(asm_input, None)

FileLabels ==
    { asm_input[i].name : i \in { j \in 1..Len(asm_input) :
                                    asm_input[j].kind = "Label" } }

\* the code line writes a register that is not one of `writable`
WritesOutside(line, writable) ==
    line.write_reg /= None /\ Unwrap(line.write_reg) \notin writable

\* the value of the code line has a term over a register that is not one of
\* `readable`
ReadsOutside(line, readable) ==
    \E k \in 1..Len(line.value) :
        /\ line.value[k][2].kind = "Register"
        /\ line.value[k][2].reg \notin readable

\* the code line passes a label that no line of the file carries
PassesNoLabel(line) ==
    \E k \in 1..Len(line.instruction_literal_args) :
        /\ line.instruction_literal_args[k] /= None
        /\ Unwrap(line.instruction_literal_args[k]) \notin FileLabels

\* the statements are all ingested and the fixup has come to the synthesis
\* of the ROM: it ends there or goes through
RomReached == status \in {"done", "panic_fixup"} /\ BusRegisters /= {}

\* ingesting an assignment or an invocation looks at no register name: an
\* assignment of the programs above never aborts, an invocation only when
\* its instruction is not declared
NamesUncheckedAtIngest ==
    status = "panic_ingest" =>
        LET last == asm_input[Len(asm_input)]
        IN  /\ last.kind /= "Assignment"
            /\ last.kind = "Instruction" =>
                 last.instr_name \notin DeclaredInstructions(asm_input)

\* after a compilation that went through, every line found its cells
CellsWritten ==
    Done =>
      LET names == { self.program_constant_names[k] :
                       k \in 1..Len(self.program_constant_names) }
          bus == Unwrap(self.default_assignment)
      IN  \A i \in Rows :
            LET line == self.code_lines[i + 1]
            IN  /\ line.write_reg /= None =>
                     /\ "p_reg_write_" \o Unwrap(line.write_reg) \in names
                     /\ Cell("p_reg_write_" \o Unwrap(line.write_reg), i) = 1
                /\ \A k \in 1..Len(line.value) :
                     line.value[k][2].kind = "Register" =>
                       "p_read_" \o bus \o "_" \o line.value[k][2].reg \in names

Writable ==
    PlainRegisters
    \cup (IF "reg_write" \in BusRegisters THEN {"const", "read_free"} ELSE {})

====
